---- MODULE Spec2Model ----
(***************************************************************************)
(* LodyLand: collection, progression and cooldown logic as a state         *)
(* machine.  One player, the player's tiles, resource stocks, cards and    *)
(* quests form the database; every request handler is one action that      *)
(* opens a session, works on the session's objects and commits.            *)
(*                                                                         *)
(* Floats are carried as integers counted in units of 1/Scale (the code    *)
(* rounds computed values to 4 decimals); times are counted in the same    *)
(* unit of a second.                                                       *)
(***************************************************************************)
EXTENDS Integers, Sequences, FiniteSets, TLC

VARIABLES
    LEVELS,     \* progression.LEVELS: level -> [xp_required, rewards]
    today,      \* date of datetime.now(timezone.utc), as a day number
    now,        \* time of datetime.now(timezone.utc), in 1/Scale seconds
    db,         \* committed rows: player, tiles, stocks, cards, quests
    resp,       \* response of the last request
    reqs,       \* in-flight collect requests (concurrent handlers)
    calc        \* last evaluation of a pure helper: inputs and output

vars == <<LEVELS, today, now, db, resp, reqs, calc>>

None == "None"            \* Python None where a string is expected
NoneRec == [none |-> TRUE]  \* Python None where a row or dict is expected
NullTime == 0 - 1           \* NULL in a DateTime column
NullDate == 0 - 1           \* NULL in a Date column
NoneInt == 0 - 1            \* NULL in an Integer column

(***************************************************************************)
(* Bounds of the model                                                     *)
(***************************************************************************)
MaxTicks == 2         \* the clock advances at most this many times
MaxTiles == 1         \* tiles a player unlocks
MaxXp == 2            \* collects stop being issued beyond this much XP
MaxLevelKey == 2      \* level tables define levels within 1 .. MaxLevelKey
MaxThreshold == 2     \* xp_required ranges over 0 .. MaxThreshold
MaxMods == 2          \* modifiers in a boost list
MaxQty == 2           \* owned quantity of one card
MaxProbeXp == 4       \* xp values probed for level_for_xp
MaxQuests == 1        \* quests created for the player
MaxDays == 1          \* midnights that pass
MaxRuleLen == 2       \* children of the outermost rule group
MaxSlot == 2          \* slot indexes requested on a land

(***************************************************************************)
(* Numbers                                                                 *)
(***************************************************************************)
Scale == 10000
AmountDen == 10       \* card amounts are written in tenths (0.1 -> 1)

Max(a, b) == IF a >= b THEN a ELSE b

Abs(a) == IF a >= 0 THEN a ELSE 0 - a

RECURSIVE Gcd(_, _)
Gcd(a, b) == IF b = 0 THEN a ELSE Gcd(b, a % b)

RECURSIVE Pow(_, _)
Pow(a, n) == IF n <= 0 THEN 1 ELSE a * Pow(a, n - 1)

\* round(): nearest integer to n/d, ties to the even neighbour (d > 0)
DivRound(n, d) ==
    LET q == n \div d
        r == n % d
    IN  IF 2 * r < d THEN q
        ELSE IF 2 * r > d THEN q + 1
        ELSE IF q % 2 = 0 THEN q ELSE q + 1

\* round(x, 2) of a value counted in 1/Scale
Round2(x) == DivRound(x, 100) * 100

RECURSIVE SortedSeq(_)
SortedSeq(S) ==
    IF S = {} THEN <<>>
    ELSE LET m == CHOOSE x \in S : \A y \in S : x <= y
         IN  <<m>> \o SortedSeq(S \ {m})

\* getattr(obj, name, default) on a mapped row
Getattr(obj, name, default) ==
    IF name \in DOMAIN obj THEN obj[name] ELSE default

(***************************************************************************)
(* Content: resource definitions, card definitions, level table            *)
(***************************************************************************)
XP_PER_COLLECT == 1

\* seed._default_resources (the rows of resource_defs)
ResourceDefs ==
    [ branch |-> [key |-> "branch", base_cooldown |-> 5, base_sell_price |-> 1,
                  unlock_min_level |-> 0, enabled |-> TRUE, unlock_rules |-> NoneRec],
      stone  |-> [key |-> "stone", base_cooldown |-> 8, base_sell_price |-> 1,
                  unlock_min_level |-> 2, enabled |-> TRUE, unlock_rules |-> NoneRec],
      gem    |-> [key |-> "gem", base_cooldown |-> 8, base_sell_price |-> 2,
                  unlock_min_level |-> 1, enabled |-> TRUE,
                  unlock_rules |->
                      [k |-> "any",
                       subs |-> <<[k |-> "leaf", type |-> "coins_at_least", value |-> 2],
                                  [k |-> "leaf", type |-> "level_at_least", value |-> 2]>>]],
      mud    |-> [key |-> "mud", base_cooldown |-> 5, base_sell_price |-> 3,
                  unlock_min_level |-> 0, enabled |-> FALSE, unlock_rules |-> NoneRec] ]

ResourceKeys == DOMAIN ResourceDefs

\* the columns of a card_defs row (models.CardDef); gameplay amounts in tenths
CardDefs ==
    [ cd_all   |-> [key |-> "cd_all", enabled |-> TRUE, card_type |-> "reduce_cooldown",
                    card_gameplay |-> [target_resource |-> None,
                                       cooldown |-> [type |-> "reduction", amount |-> 5]],
                    shop |-> [prices |-> <<[coins |-> 1, diams |-> 0,
                                            resources |-> <<>>]>>],
                    card_quantity |-> 0, card_purchase_limit_quantity |-> NullTime,
                    card_max_owned |-> 1, unlock_rules |-> NoneRec],
      xp_plus  |-> [key |-> "xp_plus", enabled |-> TRUE, card_type |-> "xp_boost",
                    card_gameplay |-> [xp |-> [type |-> "addition", amount |-> 5]],
                    shop |-> [prices |-> <<[coins |-> 0, diams |-> 1,
                                            resources |-> <<[resource |-> "branch",
                                                             needed |-> 1]>>]>>],
                    card_quantity |-> 0, card_purchase_limit_quantity |-> NullTime,
                    card_max_owned |-> NoneInt, unlock_rules |-> NoneRec],
      br_boost |-> [key |-> "br_boost", enabled |-> TRUE, card_type |-> "resource_boost",
                    card_gameplay |-> [target_resource |-> "branch",
                                       boost |-> [type |-> "addition", amount |-> 1]],
                    shop |-> NoneRec,
                    card_quantity |-> 0, card_purchase_limit_quantity |-> NullTime,
                    card_max_owned |-> NoneInt, unlock_rules |-> NoneRec],
      res_all  |-> [key |-> "res_all", enabled |-> TRUE, card_type |-> "resource_boost",
                    card_gameplay |-> [target_resource |-> None,
                                       boost |-> [type |-> "multiplier", amount |-> 15]],
                    shop |-> [prices |-> <<[coins |-> 2, diams |-> 0,
                                            resources |-> <<>>]>>,
                              buy_rules |-> [k |-> "leaf", type |-> "level_at_least",
                                             value |-> 1]],
                    card_quantity |-> 0, card_purchase_limit_quantity |-> NullTime,
                    card_max_owned |-> NoneInt, unlock_rules |-> NoneRec],
      cd_stone |-> [key |-> "cd_stone", enabled |-> TRUE, card_type |-> "reduce_cooldown",
                    card_gameplay |-> [target_resource |-> "stone",
                                       cooldown |-> [type |-> "reduction", amount |-> 1]],
                    shop |-> [prices |-> <<[coins |-> 0, diams |-> 0,
                                            resources |-> <<[resource |-> "branch",
                                                             needed |-> 1]>>]>>,
                              quantity |-> 1],
                    card_quantity |-> 0, card_purchase_limit_quantity |-> NullTime,
                    card_max_owned |-> NoneInt, unlock_rules |-> NoneRec],
      loot_all |-> [key |-> "loot_all", enabled |-> TRUE, card_type |-> "land_loot_boost",
                    card_gameplay |-> [target_land |-> None, target_tool |-> None,
                                       loot |-> [type |-> "addition", amount |-> 1]],
                    shop |-> NoneRec,
                    card_quantity |-> 0, card_purchase_limit_quantity |-> NullTime,
                    card_max_owned |-> NoneInt, unlock_rules |-> NoneRec],
      loot_forest |-> [key |-> "loot_forest", enabled |-> TRUE,
                    card_type |-> "land_loot_boost",
                    card_gameplay |-> [target_land |-> "forest", target_tool |-> "hands",
                                       loot |-> [type |-> "multiplier", amount |-> 15]],
                    shop |-> NoneRec,
                    card_quantity |-> 0, card_purchase_limit_quantity |-> NullTime,
                    card_max_owned |-> NoneInt, unlock_rules |-> NoneRec],
      land_forest |-> [key |-> "land_forest", enabled |-> TRUE,
                    card_type |-> "land_access",
                    card_gameplay |-> NoneRec,
                    shop |-> NoneRec,
                    card_quantity |-> 0, card_purchase_limit_quantity |-> NullTime,
                    card_max_owned |-> NoneInt, unlock_rules |-> NoneRec],
      land_beach |-> [key |-> "land_beach", enabled |-> TRUE,
                    card_type |-> "land_access",
                    card_gameplay |-> NoneRec,
                    shop |-> NoneRec,
                    card_quantity |-> 0, card_purchase_limit_quantity |-> NullTime,
                    card_max_owned |-> NoneInt, unlock_rules |-> NoneRec],
      unlock_stone |-> [key |-> "unlock_stone", enabled |-> TRUE,
                    card_type |-> "unlock_resource",
                    card_gameplay |-> [target_resource |-> "stone"],
                    shop |-> NoneRec,
                    card_quantity |-> 0, card_purchase_limit_quantity |-> NullTime,
                    card_max_owned |-> NoneInt, unlock_rules |-> NoneRec] ]

\* lands.yml: a forest collected by hand (one or two branches, and one more
\* half of the time) whose further slots cost 2 diams times 1.5 per slot
\* bought (the multiplier is in tenths), a beach that has no "hands" tool and
\* leaves the slot costs to their defaults
LandDefs ==
    [ forest |-> [slots |-> 2,
                  additional_slot_base_cost_diams |-> 2,
                  additional_slot_cost_multiplier |-> 15,
                  tools |-> [hands |->
                      [base_loot |-> <<[resource |-> "branch", chance |-> 10,
                                        min |-> 1, max |-> 2]>>,
                       extra_loot |-> <<[resource |-> "branch", chance |-> 5,
                                         min |-> 1, max |-> 1]>>]]],
      beach  |-> [slots |-> 1,
                  tools |-> [net |->
                      [base_loot |-> <<[resource |-> "stone", chance |-> 10,
                                        min |-> 1, max |-> 1]>>,
                       extra_loot |-> <<>>]]] ]

get_land_def(land_key) ==
    IF land_key \in DOMAIN LandDefs THEN LandDefs[land_key] ELSE NoneRec

CardKeys == DOMAIN CardDefs

\* _load_levels_from_yaml when levels.yml is missing
DefaultLevels ==
    LET defaults == <<10, 30, 60, 100, 150>>
    IN  [idx \in 1..Len(defaults) |-> [xp_required |-> defaults[idx], rewards |-> <<>>]]

\* reward lists a level of a bounded level table may carry
RewardLists ==
    { <<>>,
      <<[type |-> "resource", resource_key |-> "branch", amount |-> 2],
        [type |-> "coins", amount |-> 5]>>,
      <<[type |-> "card", card_key |-> "cd_all", amount |-> 1],
        [type |-> "diams", amount |-> 1]>> }

\* _load_levels_from_yaml: every table over levels 1..MaxLevelKey
LevelTables ==
    UNION { [K -> [xp_required : 0..MaxThreshold, rewards : RewardLists]]
            : K \in (SUBSET (1..MaxLevelKey)) \ {{}} }

\* the level tables the game is run under: every choice of thresholds for
\* levels 1 and 2, all levels carrying the same reward list
GameLevelTables ==
    UNION { UNION { [K -> [xp_required : {0, 1, 2}, rewards : {rl}]]
                    : K \in {{1}, {2}, {1, 2}} }
            : rl \in RewardLists }

\* level tables without rewards (thresholds only)
ThresholdTables ==
    UNION { [K -> [xp_required : 0..(MaxThreshold + 1), rewards : {<<>>}]]
            : K \in (SUBSET (1..(MaxLevelKey + 1))) \ {{}} }

(***************************************************************************)
(* progression.level_for_xp                                                *)
(***************************************************************************)
\* LevelScan with a strict comparison
RECURSIVE LevelScanStrict(_, _, _, _)
LevelScanStrict(L, keys, xp, lvl) ==
    IF keys = <<>> THEN lvl
    ELSE IF xp > L[Head(keys)].xp_required * Scale
         THEN LevelScanStrict(L, Tail(keys), xp, Head(keys))
         ELSE lvl

RECURSIVE LevelScan(_, _, _, _)
LevelScan(L, keys, xp, lvl) ==
    IF keys = <<>> THEN lvl
    ELSE IF xp >= L[Head(keys)].xp_required * Scale
         THEN LevelScan(L, Tail(keys), xp, Head(keys))
         ELSE lvl

\* level_for_xp scanning the levels from the highest down
level_for_xp_descending(L, xp) ==
    LET keys == SortedSeq(DOMAIN L)
        n == Len(keys)
    IN  LevelScan(L, [i \in 1..n |-> keys[n + 1 - i]], xp, 0)

level_for_xp(L, xp) == LevelScan(L, SortedSeq(DOMAIN L), xp, 0)

(***************************************************************************)
(* Sessions.  SessionLocal() is created with autoflush=False: a query      *)
(* returns the rows the database holds (carrying the changes this session  *)
(* made to them) and never the rows added in this session and not yet      *)
(* flushed.  commit() flushes the changed columns and the added rows in    *)
(* one transaction; a violated unique constraint raises IntegrityError     *)
(* and nothing is written.                                                 *)
(***************************************************************************)
OpenSession(d) ==
    [loaded |-> d, cur |-> d, newStocks |-> <<>>, newCards |-> <<>>, err |-> ""]

\* index of the first row of a table matching a predicate, 0 when none
RECURSIVE FirstIdxFrom(_, _, _, _)
FirstIdxFrom(rows, field, val, i) ==
    IF i > Len(rows) THEN 0
    ELSE IF rows[i][field] = val THEN i
    ELSE FirstIdxFrom(rows, field, val, i + 1)

FirstIdx(rows, field, val) == FirstIdxFrom(rows, field, val, 1)

MatchCount(rows, field, val) ==
    Cardinality({i \in 1..Len(rows) : rows[i][field] = val})

\* uix_player_resource: one resource_stocks row per (player, resource)
StockUniqueViolated(stocks, added) ==
    \/ \E i, j \in 1..Len(added) : i # j /\ added[i].resource = added[j].resource
    \/ \E i \in 1..Len(added) : FirstIdx(stocks, "resource", added[i].resource) # 0

\* a column is written when the session changed it since it was loaded
MergeRow(dbRow, loadedRow, curRow) ==
    [f \in DOMAIN dbRow |-> IF curRow[f] # loadedRow[f] THEN curRow[f] ELSE dbRow[f]]

MergeRows(dbRows, loadedRows, curRows) ==
    [i \in 1..Len(dbRows) |->
        IF i <= Len(loadedRows)
        THEN MergeRow(dbRows[i], loadedRows[i], curRows[i])
        ELSE dbRows[i]]

\* a commit that is not one transaction: on IntegrityError the row updates stay
CommitPartial(d, S) ==
    [ok |-> ~StockUniqueViolated(d.stocks, S.newStocks),
     db |-> [player |-> MergeRow(d.player, S.loaded.player, S.cur.player),
             tiles  |-> MergeRows(d.tiles, S.loaded.tiles, S.cur.tiles),
             stocks |-> MergeRows(d.stocks, S.loaded.stocks, S.cur.stocks)
                        \o (IF StockUniqueViolated(d.stocks, S.newStocks)
                            THEN <<>> ELSE S.newStocks),
             cards  |-> MergeRows(d.cards, S.loaded.cards, S.cur.cards)
                        \o S.newCards,
             quests |-> MergeRows(d.quests, S.loaded.quests, S.cur.quests),
             land_slots |-> IF S.cur.land_slots # S.loaded.land_slots
                            THEN S.cur.land_slots ELSE d.land_slots,
             items  |-> IF S.cur.items # S.loaded.items THEN S.cur.items ELSE d.items]]

\* session.commit(): [ok, db]
Commit(d, S) ==
    IF StockUniqueViolated(d.stocks, S.newStocks)
    THEN [ok |-> FALSE, db |-> d]
    ELSE [ok |-> TRUE,
          db |-> [player |-> MergeRow(d.player, S.loaded.player, S.cur.player),
                  tiles  |-> MergeRows(d.tiles, S.loaded.tiles, S.cur.tiles),
                  stocks |-> MergeRows(d.stocks, S.loaded.stocks, S.cur.stocks)
                             \o S.newStocks,
                  cards  |-> MergeRows(d.cards, S.loaded.cards, S.cur.cards)
                             \o S.newCards,
                  quests |-> MergeRows(d.quests, S.loaded.quests, S.cur.quests),
                  land_slots |-> IF S.cur.land_slots # S.loaded.land_slots
                                 THEN S.cur.land_slots ELSE d.land_slots,
                  items  |-> IF S.cur.items # S.loaded.items
                             THEN S.cur.items ELSE d.items]]

(***************************************************************************)
(* Boost cards of a player (api_resources card helpers)                    *)
(***************************************************************************)
\* the quantity of a player's stock row for a resource, 0 without a row
StockQty(stocks, resource) ==
    LET i == FirstIdx(stocks, "resource", resource)
    IN  IF i = 0 THEN 0 ELSE stocks[i].qty

DictGet(d, k, default) == IF k \in DOMAIN d THEN d[k] ELSE default

\* PlayerCard joined to CardDef on the card key
JoinedCards(S) ==
    SelectSeq(S.cur.cards, LAMBDA pc : pc.card_key \in DOMAIN CardDefs)

RECURSIVE CooldownBoostsFrom(_, _)
CooldownBoostsFrom(rows, resource_key) ==
    IF rows = <<>> THEN <<>>
    ELSE LET pc == Head(rows)
             cd == CardDefs[pc.card_key]
             gp == Getattr(cd, "gameplay", NoneRec)
             target == DictGet(gp, "target_resource", None)
             cd_cfg == DictGet(gp, "cooldown", NoneRec)
             rest == CooldownBoostsFrom(Tail(rows), resource_key)
         IN  IF Getattr(cd, "type", None) # "reduce_cooldown" THEN rest
             ELSE IF target \notin {None, resource_key} THEN rest
             ELSE IF cd_cfg = NoneRec THEN rest
             ELSE <<[qty |-> pc.qty, type |-> cd_cfg.type, amount |-> cd_cfg.amount]>>
                  \o rest

_get_cooldown_boost_cards(S, resource_key) ==
    CooldownBoostsFrom(JoinedCards(S), resource_key)

RECURSIVE XpBoostsFrom(_)
XpBoostsFrom(rows) ==
    IF rows = <<>> THEN <<>>
    ELSE LET pc == Head(rows)
             cd == CardDefs[pc.card_key]
             gp == Getattr(cd, "gameplay", NoneRec)
             xp_cfg == DictGet(gp, "xp", NoneRec)
             rest == XpBoostsFrom(Tail(rows))
         IN  IF Getattr(cd, "type", None) # "xp_boost" THEN rest
             ELSE IF xp_cfg = NoneRec THEN rest
             ELSE <<[qty |-> pc.qty, type |-> xp_cfg.type, amount |-> xp_cfg.amount]>>
                  \o rest

_get_xp_boost_cards(S) == XpBoostsFrom(JoinedCards(S))

RECURSIVE ResourceBoostsFrom(_, _)
ResourceBoostsFrom(rows, resource_key) ==
    IF rows = <<>> THEN <<>>
    ELSE LET pc == Head(rows)
             cd == CardDefs[pc.card_key]
             gp == Getattr(cd, "gameplay", NoneRec)
             boost_cfg == DictGet(gp, "boost", NoneRec)
             rest == ResourceBoostsFrom(Tail(rows), resource_key)
         IN  IF Getattr(cd, "type", None) # "resource_boost" THEN rest
             ELSE IF DictGet(gp, "target_resource", None) # resource_key THEN rest
             ELSE IF boost_cfg = NoneRec THEN rest
             ELSE <<[qty |-> pc.qty, type |-> boost_cfg.type,
                     amount |-> boost_cfg.amount]>> \o rest

_get_resource_boost_cards(S, resource_key) ==
    ResourceBoostsFrom(JoinedCards(S), resource_key)

RECURSIVE LandLootBoostsFrom(_, _, _)
LandLootBoostsFrom(rows, land_key, tool_key) ==
    IF rows = <<>> THEN <<>>
    ELSE LET pc == Head(rows)
             cd == CardDefs[pc.card_key]
             gp == Getattr(cd, "gameplay", NoneRec)
             target_land == DictGet(gp, "target_land", None)
             target_tool == DictGet(gp, "target_tool", None)
             loot_cfg == DictGet(gp, "loot", NoneRec)
             rest == LandLootBoostsFrom(Tail(rows), land_key, tool_key)
         IN  IF Getattr(cd, "type", None) # "land_loot_boost" THEN rest
             ELSE IF target_land # None /\ target_land # land_key THEN rest
             ELSE IF target_tool # None /\ target_tool # tool_key THEN rest
             ELSE IF loot_cfg = NoneRec THEN rest
             ELSE <<[qty |-> pc.qty, type |-> loot_cfg.type,
                     amount |-> loot_cfg.amount]>> \o rest

_get_land_loot_boost_cards(S, land_key, tool_key) ==
    LandLootBoostsFrom(JoinedCards(S), land_key, tool_key)

(***************************************************************************)
(* Stacking loops.  A running value is the fraction num/den of 1/Scale.    *)
(***************************************************************************)
\* the loop of _compute_cooldown over a boost list
RECURSIVE CooldownLoop(_, _, _)
CooldownLoop(num, den, boosts) ==
    IF boosts = <<>> THEN DivRound(num, den)
    ELSE LET b == Head(boosts)
         IN  IF b.qty <= 0 THEN CooldownLoop(num, den, Tail(boosts))
             ELSE IF b.type = "reduction"
             THEN CooldownLoop(num * Max(1, AmountDen - b.amount * b.qty),
                               den * AmountDen, Tail(boosts))
             ELSE IF b.type = "multiplier"
             THEN CooldownLoop(num * Pow(b.amount, b.qty),
                               den * Pow(AmountDen, b.qty), Tail(boosts))
             ELSE CooldownLoop(num, den, Tail(boosts))

\* cooldown of base_cooldown (in 1/Scale s) under a boost list, rounded to 4 decimals
CooldownOf(base_cooldown, boosts) == CooldownLoop(base_cooldown, 1, boosts)

_compute_cooldown(S, resource_key, base_cooldown) ==
    CooldownOf(base_cooldown, _get_cooldown_boost_cards(S, resource_key))

\* the factor (1 + amount * qty) or amount ** qty as a fraction in lowest
\* terms, amount being counted in 1/AmountDen
AdditionFactor(b) ==
    LET n == AmountDen + b.amount * b.qty
        g == Gcd(Abs(n), AmountDen)
    IN  [num |-> n \div g, den |-> AmountDen \div g]

\* a multiplier that grows linearly with qty instead of exponentially
MultiplierFactorLinear(b) ==
    LET n == b.amount * b.qty
        g == Gcd(Abs(n), AmountDen)
    IN  [num |-> n \div g, den |-> AmountDen \div g]

MultiplierFactor(b) ==
    LET g == Gcd(Abs(b.amount), AmountDen)
    IN  [num |-> Pow(b.amount \div g, b.qty), den |-> Pow(AmountDen \div g, b.qty)]

RECURSIVE YieldLoop(_, _, _)

\* the loop with 'addition' amounts summed onto the running value
YieldLoopSummed(num, den, boosts) ==
    IF boosts = <<>> THEN DivRound(num, den)
    ELSE LET b == Head(boosts)
         IN  IF b.qty <= 0 THEN YieldLoop(num, den, Tail(boosts))
             ELSE IF b.type = "addition"
             THEN YieldLoop(num * AmountDen + den * Scale * b.amount * b.qty,
                            den * AmountDen, Tail(boosts))
             ELSE IF b.type = "multiplier"
             THEN YieldLoop(num * MultiplierFactor(b).num,
                            den * MultiplierFactor(b).den, Tail(boosts))
             ELSE YieldLoop(num, den, Tail(boosts))

\* the loop of _compute_collect_amount and _compute_xp_gain, round(., 4) at
\* the end
YieldLoop(num, den, boosts) ==
    IF boosts = <<>> THEN DivRound(num, den)
    ELSE LET b == Head(boosts)
         IN  IF b.qty <= 0 THEN YieldLoop(num, den, Tail(boosts))
             ELSE IF b.type = "addition"
             THEN YieldLoop(num * AdditionFactor(b).num,
                            den * AdditionFactor(b).den, Tail(boosts))
             ELSE IF b.type = "multiplier"
             THEN YieldLoop(num * MultiplierFactor(b).num,
                            den * MultiplierFactor(b).den, Tail(boosts))
             ELSE YieldLoop(num, den, Tail(boosts))

\* the loop of _compute_land_loot_multiplier
RECURSIVE LandLootLoop(_, _, _)
LandLootLoop(num, den, boosts) ==
    IF boosts = <<>> THEN DivRound(num, den)
    ELSE LET b == Head(boosts)
         IN  IF b.qty <= 0 \/ b.amount = 0
             THEN LandLootLoop(num, den, Tail(boosts))
             ELSE IF b.type = "addition"
             THEN LandLootLoop(num * AdditionFactor(b).num,
                               den * AdditionFactor(b).den, Tail(boosts))
             ELSE IF b.type = "multiplier"
             THEN LandLootLoop(num * MultiplierFactor(b).num,
                               den * MultiplierFactor(b).den, Tail(boosts))
             ELSE LandLootLoop(num, den, Tail(boosts))

\* the three stacking computations on a resolved boost list
CollectAmountOf(boosts) == YieldLoop(1 * Scale, 1, boosts)

XpGainOf(base_xp, boosts) == YieldLoop(base_xp * Scale, 1, boosts)

LandLootMultiplierOf(boosts) == LandLootLoop(1 * Scale, 1, boosts)

_compute_collect_amount(S, resource_key) ==
    CollectAmountOf(_get_resource_boost_cards(S, resource_key))

_compute_xp_gain(S, base_xp) ==
    XpGainOf(base_xp, _get_xp_boost_cards(S))

_compute_land_loot_multiplier(S, land_key, tool_key) ==
    LandLootMultiplierOf(_get_land_loot_boost_cards(S, land_key, tool_key))

(***************************************************************************)
(* Progression: rewards and level-up (progression.py)                      *)
(***************************************************************************)
_grant_resource(S, resource_key, amount) ==
    IF resource_key = "" \/ amount <= 0 THEN S
    ELSE LET i == FirstIdx(S.cur.stocks, "resource", resource_key)
         IN  IF i = 0
             THEN [S EXCEPT !.newStocks =
                      Append(@, [resource |-> resource_key, qty |-> 0 + amount])]
             ELSE [S EXCEPT !.cur.stocks[i].qty = @ + amount]

\* .one_or_none() raises MultipleResultsFound on two matching rows
_grant_card(S, card_key, amount) ==
    IF card_key = "" \/ amount <= 0 THEN S
    ELSE LET n == MatchCount(S.cur.cards, "card_key", card_key)
             i == FirstIdx(S.cur.cards, "card_key", card_key)
         IN  IF n > 1 THEN [S EXCEPT !.err = "MultipleResultsFound"]
             ELSE IF i = 0
             THEN [S EXCEPT !.newCards =
                      Append(@, [card_key |-> card_key, qty |-> 0 + amount])]
             ELSE [S EXCEPT !.cur.cards[i].qty = @ + amount]

\* one reward of a level: the session after it and the record reported
ApplyReward(S, r) ==
    IF r.type = "coins"
    THEN [S |-> [S EXCEPT !.cur.player.coins = @ + r.amount],
          rec |-> <<[type |-> "coins", amount |-> r.amount, key |-> None]>>]
    ELSE IF r.type = "diams"
    THEN [S |-> [S EXCEPT !.cur.player.diams = @ + r.amount],
          rec |-> <<[type |-> "diams", amount |-> r.amount, key |-> None]>>]
    ELSE IF r.type = "resource"
    THEN [S |-> _grant_resource(S, r.resource_key, r.amount * Scale),
          rec |-> <<[type |-> "resource", amount |-> r.amount, key |-> r.resource_key]>>]
    ELSE IF r.type = "card"
    THEN [S |-> _grant_card(S, r.card_key, r.amount),
          rec |-> <<[type |-> "card", amount |-> r.amount, key |-> r.card_key]>>]
    ELSE [S |-> S, rec |-> <<>>]

RECURSIVE RewardLoop(_, _, _)
RewardLoop(S, rewards_cfg, applied) ==
    IF rewards_cfg = <<>> \/ S.err # "" THEN [S |-> S, applied |-> applied]
    ELSE LET a == ApplyReward(S, Head(rewards_cfg))
         IN  RewardLoop(a.S, Tail(rewards_cfg), applied \o a.rec)

apply_level_rewards(L, S, new_level) ==
    IF new_level \notin DOMAIN L THEN [S |-> S, applied |-> <<>>]
    ELSE RewardLoop(S, L[new_level].rewards, <<>>)

\* LevelUpLoop tagging every record with the level reached at the end
RECURSIVE LevelUpLoopFinalTag(_, _, _, _, _)
LevelUpLoopFinalTag(L, S, lvl, new_level, all_rewards) ==
    IF lvl > new_level \/ S.err # "" THEN [S |-> S, all_rewards |-> all_rewards]
    ELSE LET a == apply_level_rewards(L, S, lvl)
             tagged == [i \in 1..Len(a.applied) |->
                          [type |-> a.applied[i].type, amount |-> a.applied[i].amount,
                           key |-> a.applied[i].key, level |-> new_level]]
         IN  LevelUpLoopFinalTag(L, a.S, lvl + 1, new_level, all_rewards \o tagged)

\* the loop over old_level+1 .. new_level, tagging each record with its level
RECURSIVE LevelUpLoop(_, _, _, _, _)
LevelUpLoop(L, S, lvl, new_level, all_rewards) ==
    IF lvl > new_level \/ S.err # "" THEN [S |-> S, all_rewards |-> all_rewards]
    ELSE LET a == apply_level_rewards(L, S, lvl)
             tagged == [i \in 1..Len(a.applied) |->
                          [type |-> a.applied[i].type, amount |-> a.applied[i].amount,
                           key |-> a.applied[i].key, level |-> lvl]]
         IN  LevelUpLoop(L, a.S, lvl + 1, new_level, all_rewards \o tagged)

\* apply_xp_and_level_up turning back only a gain of exactly zero
apply_xp_zero_guard(L, S, gained_xp) ==
    IF gained_xp = 0
    THEN [S |-> S, level_up |-> FALSE, new_level |-> S.cur.player.level,
          all_rewards |-> <<>>]
    ELSE LET S1 == [S EXCEPT !.cur.player.xp = @ + gained_xp]
             old_level == S1.cur.player.level
             new_level == level_for_xp(L, S1.cur.player.xp)
         IN  IF new_level <= old_level
             THEN [S |-> S1, level_up |-> FALSE, new_level |-> old_level,
                   all_rewards |-> <<>>]
             ELSE LET lp == LevelUpLoop(L, S1, old_level + 1, new_level, <<>>)
                  IN  [S |-> IF lp.S.err # "" THEN lp.S
                             ELSE [lp.S EXCEPT !.cur.player.level = new_level],
                       level_up |-> TRUE, new_level |-> new_level,
                       all_rewards |-> lp.all_rewards]

\* [S, level_up, new_level, all_rewards]; gained_xp in 1/Scale
apply_xp_and_level_up(L, S, gained_xp) ==
    IF gained_xp <= 0
    THEN [S |-> S, level_up |-> FALSE, new_level |-> S.cur.player.level,
          all_rewards |-> <<>>]
    ELSE LET S1 == [S EXCEPT !.cur.player.xp = @ + gained_xp]
             old_level == S1.cur.player.level
             new_level == level_for_xp(L, S1.cur.player.xp)
         IN  IF new_level <= old_level
             THEN [S |-> S1, level_up |-> FALSE, new_level |-> old_level,
                   all_rewards |-> <<>>]
             ELSE LET lp == LevelUpLoop(L, S1, old_level + 1, new_level, <<>>)
                  IN  [S |-> IF lp.S.err # "" THEN lp.S
                             ELSE [lp.S EXCEPT !.cur.player.level = new_level],
                       level_up |-> TRUE, new_level |-> new_level,
                       all_rewards |-> lp.all_rewards]

(***************************************************************************)
(* Quests (quests/service.py)                                              *)
(***************************************************************************)
_apply_quest_rewards(player, quest) ==
    [player EXCEPT !.coins = @ + quest.rewards_json.coins,
                   !.diams = @ + quest.rewards_json.diams]

\* try_complete_quest without the test of the objectives
try_complete_quest_eager(player, quest) ==
    IF quest.status # "active" THEN [player |-> player, quest |-> quest]
    ELSE [player |-> _apply_quest_rewards(player, quest),
          quest |-> [quest EXCEPT !.status = "completed"]]

\* [player, quest] after the completion attempt
try_complete_quest(player, quest) ==
    IF quest.status # "active" THEN [player |-> player, quest |-> quest]
    ELSE IF \E i \in 1..Len(quest.objectives) :
               quest.objectives[i].current_value < quest.objectives[i].target_value
    THEN [player |-> player, quest |-> quest]
    ELSE [player |-> _apply_quest_rewards(player, quest),
          quest |-> [quest EXCEPT !.status = "completed"]]

\* objectives of one quest after a hook of the given kind
AdvanceObjectives(objectives, kind, field, key, increment) ==
    [i \in 1..Len(objectives) |->
        LET obj == objectives[i]
            new_value == IF obj.current_value + increment > obj.target_value
                         THEN obj.target_value
                         ELSE obj.current_value + increment
        IN  IF obj.kind # kind \/ obj[field] # key THEN obj
            ELSE [obj EXCEPT !.current_value = new_value]]

RECURSIVE QuestHookLoop(_, _, _, _, _, _)
QuestHookLoop(S, i, kind, field, key, increment) ==
    IF i > Len(S.cur.quests) THEN S
    ELSE LET quest == S.cur.quests[i]
             objs == AdvanceObjectives(quest.objectives, kind, field, key, increment)
             done == try_complete_quest(S.cur.player,
                                        [quest EXCEPT !.objectives = objs])
         IN  IF quest.status # "active" \/ objs = quest.objectives
             THEN QuestHookLoop(S, i + 1, kind, field, key, increment)
             ELSE QuestHookLoop([S EXCEPT !.cur.quests[i] = done.quest,
                                          !.cur.player = done.player],
                                i + 1, kind, field, key, increment)

\* the hook counting every collected unit twice
on_resource_collected_doubled(S, resource_key, base_amount) ==
    IF base_amount <= 0 THEN S
    ELSE QuestHookLoop(S, 1, "collect_resource", "resource_key", resource_key,
                       2 * base_amount)

on_resource_collected(S, resource_key, base_amount) ==
    IF base_amount <= 0 THEN S
    ELSE QuestHookLoop(S, 1, "collect_resource", "resource_key", resource_key,
                       base_amount)

on_item_crafted(S, item_key, quantity) ==
    IF quantity <= 0 THEN S
    ELSE QuestHookLoop(S, 1, "craft_item", "item_key", item_key, quantity)

(***************************************************************************)
(* Unlock rules (unlock_rules.py).  A rule is NoneRec, a leaf                *)
(* [k |-> "leaf", type, value] or a group [k |-> "all" | "any" | "list",   *)
(* subs].                                                                  *)
(***************************************************************************)
NoInfo == [reason |-> None]

\* _eval_simple_rule with strict comparisons
_eval_simple_rule_strict(player, rule) ==
    IF rule.type = "level_at_least"
    THEN IF player.level > rule.value THEN [ok |-> TRUE, info |-> NoInfo]
         ELSE [ok |-> FALSE,
               info |-> [reason |-> "level_too_low", required |-> rule.value,
                         current_level |-> player.level]]
    ELSE IF rule.type = "coins_at_least"
    THEN IF player.coins > rule.value THEN [ok |-> TRUE, info |-> NoInfo]
         ELSE [ok |-> FALSE,
               info |-> [reason |-> "not_enough_coins", required |-> rule.value,
                         current_coins |-> player.coins]]
    ELSE [ok |-> TRUE, info |-> NoInfo]

_eval_simple_rule(player, rule) ==
    IF rule.type = "level_at_least"
    THEN IF player.level >= rule.value THEN [ok |-> TRUE, info |-> NoInfo]
         ELSE [ok |-> FALSE,
               info |-> [reason |-> "level_too_low", required |-> rule.value,
                         current_level |-> player.level]]
    ELSE IF rule.type = "coins_at_least"
    THEN IF player.coins >= rule.value THEN [ok |-> TRUE, info |-> NoInfo]
         ELSE [ok |-> FALSE,
               info |-> [reason |-> "not_enough_coins", required |-> rule.value,
                         current_coins |-> player.coins]]
    ELSE [ok |-> TRUE, info |-> NoInfo]

RECURSIVE _eval_block(_, _)
RECURSIVE EvalAll(_, _)
RECURSIVE EvalAny(_, _, _)

\* EvalAll reporting the last failing child instead of the first
EvalAllLastFailure(player, subs) ==
    IF subs = <<>> THEN [ok |-> TRUE, info |-> NoInfo]
    ELSE LET r == _eval_block(player, Head(subs))
             rest == EvalAll(player, Tail(subs))
         IN  IF ~rest.ok THEN rest
             ELSE IF ~r.ok THEN [ok |-> FALSE, info |-> r.info]
             ELSE [ok |-> TRUE, info |-> NoInfo]

\* EvalAny keeping the first failure info instead of the last
EvalAnyFirstFailure(player, subs, last_info) ==
    IF subs = <<>>
    THEN [ok |-> FALSE,
          info |-> IF last_info = NoInfo THEN [reason |-> "no_variant_matches"]
                   ELSE last_info]
    ELSE LET r == _eval_block(player, Head(subs))
         IN  IF r.ok THEN [ok |-> TRUE, info |-> NoInfo]
             ELSE EvalAny(player, Tail(subs),
                          IF last_info = NoInfo THEN r.info ELSE last_info)

\* EvalAny without the no_variant_matches default
EvalAnyNoDefault(player, subs, last_info) ==
    IF subs = <<>> THEN [ok |-> FALSE, info |-> last_info]
    ELSE LET r == _eval_block(player, Head(subs))
         IN  IF r.ok THEN [ok |-> TRUE, info |-> NoInfo]
             ELSE EvalAny(player, Tail(subs), r.info)

EvalAll(player, subs) ==
    IF subs = <<>> THEN [ok |-> TRUE, info |-> NoInfo]
    ELSE LET r == _eval_block(player, Head(subs))
         IN  IF ~r.ok THEN [ok |-> FALSE, info |-> r.info]
             ELSE EvalAll(player, Tail(subs))

EvalAny(player, subs, last_info) ==
    IF subs = <<>>
    THEN [ok |-> FALSE,
          info |-> IF last_info = NoInfo THEN [reason |-> "no_variant_matches"]
                   ELSE last_info]
    ELSE LET r == _eval_block(player, Head(subs))
         IN  IF r.ok THEN [ok |-> TRUE, info |-> NoInfo]
             ELSE EvalAny(player, Tail(subs), r.info)

_eval_block(player, spec) ==
    IF spec = NoneRec THEN [ok |-> TRUE, info |-> NoInfo]
    ELSE IF spec.k = "list" /\ spec.subs = <<>> THEN [ok |-> TRUE, info |-> NoInfo]
    ELSE IF spec.k = "all" THEN EvalAll(player, spec.subs)
    ELSE IF spec.k = "any" THEN EvalAny(player, spec.subs, NoInfo)
    ELSE IF spec.k = "list" THEN EvalAll(player, spec.subs)
    ELSE _eval_simple_rule(player, spec)

check_unlock_rules(player, rules) ==
    IF rules = NoneRec THEN [ok |-> TRUE, info |-> NoInfo]
    ELSE _eval_block(player, rules)

(***************************************************************************)
(* Request handlers.  Each returns the database after the request and the  *)
(* response; a rejected request returns the database it was given.         *)
(***************************************************************************)
Reject(d, op, status, error) ==
    [db |-> d, resp |-> [op |-> op, status |-> status, error |-> error]]

\* _get_res_def without the enabled filter
_get_res_def_any(key) ==
    IF key # "" /\ key \in DOMAIN ResourceDefs
    THEN ResourceDefs[key] ELSE NoneRec

_get_res_def(key) ==
    IF key # "" /\ key \in DOMAIN ResourceDefs /\ ResourceDefs[key].enabled
    THEN ResourceDefs[key] ELSE NoneRec

RECURSIVE HasUnlockCardFrom(_, _)
HasUnlockCardFrom(rows, resource_key) ==
    IF rows = <<>> THEN FALSE
    ELSE LET pc == Head(rows)
             cd == CardDefs[pc.card_key]
         IN  IF Getattr(cd, "type", None) # "unlock_resource"
             THEN HasUnlockCardFrom(Tail(rows), resource_key)
             ELSE IF Getattr(cd, "target_resource", None) # resource_key
             THEN HasUnlockCardFrom(Tail(rows), resource_key)
             ELSE IF pc.qty > 0 THEN TRUE
             ELSE HasUnlockCardFrom(Tail(rows), resource_key)

_has_unlock_resource_card(S, resource_key) ==
    HasUnlockCardFrom(JoinedCards(S), resource_key)

\* a tile created already locked
NewTileLocked(resource) ==
    [resource |-> resource, locked |-> TRUE, cooldown_until |-> NullTime]

NewTile(resource) == [resource |-> resource, locked |-> FALSE, cooldown_until |-> NullTime]

\* POST /api/tiles/unlock (routes/api_resources.py)
unlock_tile(d, resource) ==
    IF resource = "" THEN Reject(d, "unlock", 400, "resource_required")
    ELSE LET S == OpenSession(d)
             p == S.cur.player
             rd == _get_res_def(resource)
             chk == check_unlock_rules(p, rd.unlock_rules)
         IN  IF rd = NoneRec THEN Reject(d, "unlock", 400, "resource_unknown_or_disabled")
             ELSE IF ~_has_unlock_resource_card(S, resource)
                     /\ p.level < rd.unlock_min_level
             THEN [db |-> d,
                   resp |-> [op |-> "unlock", status |-> 403, error |-> "level_too_low",
                             required |-> rd.unlock_min_level]]
             ELSE IF ~_has_unlock_resource_card(S, resource) /\ ~chk.ok
             THEN [db |-> d,
                   resp |-> [op |-> "unlock", status |-> 403,
                             error |-> chk.info.reason, details |-> chk.info]]
             ELSE [db |-> [d EXCEPT !.tiles = Append(@, NewTile(resource))],
                   resp |-> [op |-> "unlock", status |-> 200, error |-> None,
                             id |-> Len(d.tiles) + 1]]

\* POST /api/tiles/unlock (app/__init__.py)
unlock_tile_app(d, resource) ==
    IF resource = "" THEN Reject(d, "unlock", 400, "resource_required")
    ELSE LET p == d.player
             rd == _get_res_def(resource)
             chk == check_unlock_rules(p, rd.unlock_rules)
         IN  IF rd = NoneRec THEN Reject(d, "unlock", 400, "resource_unknown_or_disabled")
             ELSE IF p.level < rd.unlock_min_level
             THEN [db |-> d,
                   resp |-> [op |-> "unlock", status |-> 403, error |-> "level_too_low",
                             required |-> rd.unlock_min_level]]
             ELSE IF ~chk.ok
             THEN [db |-> d,
                   resp |-> [op |-> "unlock", status |-> 403,
                             error |-> chk.info.reason, details |-> chk.info]]
             ELSE [db |-> [d EXCEPT !.tiles = Append(@, NewTile(resource))],
                   resp |-> [op |-> "unlock", status |-> 200, error |-> None,
                             id |-> Len(d.tiles) + 1]]

\* CollectCheck with the cooldown comparison turned around
CollectCheckFlipped(d, t_now, tile_id) ==
    IF tile_id = 0 THEN [op |-> "collect", status |-> 400, error |-> "tileId_required"]
    ELSE IF tile_id > Len(d.tiles)
    THEN [op |-> "collect", status |-> 400, error |-> "tile_missing"]
    ELSE LET t == d.tiles[tile_id]
         IN  IF t.locked THEN [op |-> "collect", status |-> 400, error |-> "locked"]
             ELSE IF t.cooldown_until # NullTime /\ t.cooldown_until < t_now
             THEN [op |-> "collect", status |-> 409, error |-> "on_cooldown",
                   until |-> t.cooldown_until]
             ELSE NoneRec

\* collect, tile mode, up to the cooldown test: the rejection or NoneRec
CollectCheck(d, t_now, tile_id) ==
    IF tile_id = 0 THEN [op |-> "collect", status |-> 400, error |-> "tileId_required"]
    ELSE IF tile_id > Len(d.tiles)
    THEN [op |-> "collect", status |-> 400, error |-> "tile_missing"]
    ELSE LET t == d.tiles[tile_id]
         IN  IF t.locked THEN [op |-> "collect", status |-> 400, error |-> "locked"]
             ELSE IF t.cooldown_until # NullTime /\ t.cooldown_until > t_now
             THEN [op |-> "collect", status |-> 409, error |-> "on_cooldown",
                   until |-> t.cooldown_until]
             ELSE NoneRec

\* the stock write of a collect: rs.qty = round(qty + amount, 2)
AddStock(S, resource, amount) ==
    LET i == FirstIdx(S.cur.stocks, "resource", resource)
    IN  IF i = 0
        THEN [S EXCEPT !.newStocks =
                 Append(@, [resource |-> resource, qty |-> Round2(0 + amount)])]
        ELSE [S EXCEPT !.cur.stocks[i].qty = Round2(@ + amount)]

\* collect, tile mode, from the cooldown computation to the quest hook
CollectWork(L, S, t_now, tile_id) ==
    LET t == S.cur.tiles[tile_id]
        rd == _get_res_def(t.resource)
        base_cd == IF rd # NoneRec THEN rd.base_cooldown ELSE 10
        effective_cd == _compute_cooldown(S, t.resource, base_cd * Scale)
        next_cd == t_now + effective_cd
        S1 == [S EXCEPT !.cur.tiles[tile_id].cooldown_until = next_cd]
        gained_xp == _compute_xp_gain(S1, XP_PER_COLLECT)
        a == apply_xp_and_level_up(L, S1, gained_xp)
        amount == _compute_collect_amount(a.S, t.resource)
        S2 == IF t.resource = "" THEN a.S
              ELSE on_resource_collected(AddStock(a.S, t.resource, amount),
                                         t.resource, 1)
    IN  [S |-> IF a.S.err # "" THEN a.S ELSE S2,
         next |-> next_cd, level_up |-> a.level_up]

\* s.commit() and the response of a collect
CollectCommit(d, w, tile_id) ==
    LET c == Commit(d, w.S)
    IN  IF w.S.err # "" THEN Reject(d, "collect", 500, w.S.err)
        ELSE IF ~c.ok THEN Reject(c.db, "collect", 500, "IntegrityError")
        ELSE [db |-> c.db,
              resp |-> [op |-> "collect", status |-> 200, error |-> None,
                        next |-> w.next, level_up |-> w.level_up]]

\* POST /api/collect with a tileId (routes/api_resources.py)
collect(L, d, t_now, tile_id) ==
    LET rej == CollectCheck(d, t_now, tile_id)
    IN  IF rej # NoneRec THEN [db |-> d, resp |-> rej]
        ELSE CollectCommit(d, CollectWork(L, OpenSession(d), t_now, tile_id), tile_id)

\* _player_has_land with the card test left out
_player_has_land_any(S, land_key) == TRUE

_player_has_land(S, land_key) ==
    LET i == FirstIdx(S.cur.cards, "card_key", "land_" \o land_key)
    IN  i # 0 /\ S.cur.cards[i].qty > 0

\* add_res of _roll_land_loot: loot is a dict kept in insertion order
add_res(loot, key, amount) ==
    LET i == FirstIdx(loot, "resource", key)
    IN  IF i = 0 THEN Append(loot, [resource |-> key, base_amount |-> amount])
        ELSE [loot EXCEPT ![i].base_amount = @ + amount]

\* every outcome of rolling the entries onto loot; chance is in tenths and
\* random.random() lies in [0, 1)
RECURSIVE RollEntries(_, _)
RollEntries(entries, loot) ==
    IF entries = <<>> THEN {loot}
    ELSE LET entry == Head(entries)
             hits == {add_res(loot, entry.resource, amount) :
                         amount \in entry.min .. entry.max}
             after == IF entry.resource = "" THEN {loot}
                      ELSE (IF entry.chance >= 0 THEN hits ELSE {})
                           \cup (IF entry.chance < AmountDen THEN {loot} ELSE {})
         IN  UNION {RollEntries(Tail(entries), l) : l \in after}

_roll_land_loot(tool_cfg) ==
    UNION {RollEntries(tool_cfg.extra_loot, l) :
              l \in RollEntries(tool_cfg.base_loot, <<>>)}

\* the stock write of a land collect:
\* rs.qty = round(qty + base_amount * per_unit * land_loot_mult, 2)
AddLandStock(S, resource, base_amount, per_unit, land_loot_mult) ==
    LET i == FirstIdx(S.cur.stocks, "resource", resource)
        boosted == base_amount * per_unit * land_loot_mult
        qty == IF i = 0 THEN 0 ELSE S.cur.stocks[i].qty
        new_qty == DivRound(qty * Scale + boosted, Scale * 100) * 100
    IN  IF i = 0
        THEN [S EXCEPT !.newStocks =
                 Append(@, [resource |-> resource, qty |-> new_qty])]
        ELSE [S EXCEPT !.cur.stocks[i].qty = new_qty]

\* the loop over raw_loot.items()
RECURSIVE LandLootApply(_, _, _)
LandLootApply(S, raw_loot, land_loot_mult) ==
    IF raw_loot = <<>> THEN S
    ELSE LET e == Head(raw_loot)
             per_unit == _compute_collect_amount(S, e.resource)
             S1 == AddLandStock(S, e.resource, e.base_amount, per_unit,
                                land_loot_mult)
         IN  LandLootApply(on_resource_collected(S1, e.resource, e.base_amount),
                           Tail(raw_loot), land_loot_mult)

\* POST /api/collect with a land (routes/api_resources.py); slot is the
\* request's slot, raw_loot the outcome of _roll_land_loot
collect_land(L, d, t_now, land_key, slot, raw_loot) ==
    LET S == OpenSession(d)
        land_def == get_land_def(land_key)
        tool_key == "hands"
        tool_cfg == DictGet(land_def.tools, tool_key, NoneRec)
        land_loot_mult == _compute_land_loot_multiplier(S, land_key, tool_key)
        gained_xp == _compute_xp_gain(S, XP_PER_COLLECT)
        a == apply_xp_and_level_up(L, S, gained_xp)
        S2 == LandLootApply(a.S, raw_loot, land_loot_mult)
        base_res == IF tool_cfg.base_loot # <<>> THEN tool_cfg.base_loot[1].resource
                    ELSE ""
        rd == _get_res_def(base_res)
        base_cd == IF base_res # "" /\ rd # NoneRec THEN rd.base_cooldown ELSE 10
        effective_cd == _compute_cooldown(S2, base_res, base_cd * Scale)
        c == Commit(d, S2)
    IN  IF ~slot.given THEN Reject(d, "collect_land", 400, "slot_required")
        ELSE IF ~_player_has_land(S, land_key)
        THEN Reject(d, "collect_land", 403, "land_locked")
        ELSE IF land_def = NoneRec THEN Reject(d, "collect_land", 400, "land_unknown")
        ELSE IF land_def.slots <= 0
        THEN Reject(d, "collect_land", 400, "land_has_no_slots")
        ELSE IF slot.value < 0 \/ slot.value >= land_def.slots
        THEN Reject(d, "collect_land", 400, "slot_out_of_range")
        ELSE IF tool_cfg = NoneRec
        THEN Reject(d, "collect_land", 400, "tool_not_allowed")
        ELSE IF a.S.err # "" THEN Reject(d, "collect_land", 500, a.S.err)
        ELSE IF ~c.ok THEN Reject(c.db, "collect_land", 500, "IntegrityError")
        ELSE [db |-> c.db,
              resp |-> [op |-> "collect_land", status |-> 200, error |-> None,
                        next |-> t_now + effective_cd, level_up |-> a.level_up]]

(***************************************************************************)
(* Land slots (lands.py, routes/api_lands.py)                              *)
(***************************************************************************)
\* lands.get_player_land_state for a known land:
\* next_cost = int(round(base_cost * multiplier ** extra))
get_player_land_state(d, land_key) ==
    LET cfg == get_land_def(land_key)
        base_slots == DictGet(cfg, "slots", 0)
        base_cost == DictGet(cfg, "additional_slot_base_cost_diams", 10)
        multiplier == DictGet(cfg, "additional_slot_cost_multiplier", 15)
        i == FirstIdx(d.land_slots, "land_key", land_key)
        extra == IF i = 0 THEN 0 ELSE d.land_slots[i].extra_slots
    IN  [base_slots |-> base_slots,
         extra_slots |-> extra,
         total_slots |-> base_slots + extra,
         next_cost |-> DivRound(base_cost * Pow(multiplier, extra), Pow(AmountDen, extra))]

\* buy_land_slot charging the diams without comparing them to the cost
buy_land_slot_unchecked(d, land_key) ==
    IF get_land_def(land_key) = NoneRec
    THEN Reject(d, "buy_land_slot", 500, "ValueError")
    ELSE LET cost == get_player_land_state(d, land_key).next_cost
             f == FirstIdx(d.cards, "card_key", "land_" \o land_key \o "_free_slot")
             used_free_card == f # 0 /\ d.cards[f].qty > 0
             cards1 == IF ~used_free_card THEN d.cards
                       ELSE IF d.cards[f].qty - 1 <= 0
                       THEN [k \in 1..(Len(d.cards) - 1) |->
                                IF k < f THEN d.cards[k] ELSE d.cards[k + 1]]
                       ELSE [d.cards EXCEPT ![f].qty = @ - 1]
             player1 == IF used_free_card THEN d.player
                        ELSE [d.player EXCEPT !.diams = @ - cost]
             i == FirstIdx(d.land_slots, "land_key", land_key)
             slots1 == IF i = 0
                       THEN Append(d.land_slots,
                                   [land_key |-> land_key, extra_slots |-> 1])
                       ELSE [d.land_slots EXCEPT ![i].extra_slots = @ + 1]
             d1 == [d EXCEPT !.player = player1, !.cards = cards1,
                             !.land_slots = slots1]
         IN  [db |-> d1,
              resp |-> [op |-> "buy_land_slot", status |-> 200, error |-> None,
                        cost |-> cost, used_free_card |-> used_free_card,
                        land_state |-> get_player_land_state(d1, land_key)]]

\* POST /api/lands/<land_key>/slots/buy (routes/api_lands.py)
buy_land_slot(d, land_key) ==
    IF get_land_def(land_key) = NoneRec
    THEN Reject(d, "buy_land_slot", 500, "ValueError")
    ELSE LET state_before == get_player_land_state(d, land_key)
             cost == state_before.next_cost
             free_card_key == "land_" \o land_key \o "_free_slot"
             f == FirstIdx(d.cards, "card_key", free_card_key)
             used_free_card == f # 0 /\ d.cards[f].qty > 0
             cards1 == IF ~used_free_card THEN d.cards
                       ELSE IF d.cards[f].qty - 1 <= 0
                       THEN [k \in 1..(Len(d.cards) - 1) |->
                                IF k < f THEN d.cards[k] ELSE d.cards[k + 1]]
                       ELSE [d.cards EXCEPT ![f].qty = @ - 1]
             player1 == IF used_free_card THEN d.player
                        ELSE [d.player EXCEPT !.diams = @ - cost]
             i == FirstIdx(d.land_slots, "land_key", land_key)
             slots1 == IF i = 0
                       THEN Append(d.land_slots,
                                   [land_key |-> land_key, extra_slots |-> 1])
                       ELSE [d.land_slots EXCEPT ![i].extra_slots = @ + 1]
             d1 == [d EXCEPT !.player = player1, !.cards = cards1,
                             !.land_slots = slots1]
             state_after == get_player_land_state(d1, land_key)
         IN  IF ~used_free_card /\ d.player.diams < cost
             THEN [db |-> d,
                   resp |-> [op |-> "buy_land_slot", status |-> 400,
                             error |-> "not_enough_diams", cost |-> cost]]
             ELSE [db |-> d1,
                   resp |-> [op |-> "buy_land_slot", status |-> 200, error |-> None,
                             cost |-> cost, used_free_card |-> used_free_card,
                             land_state |-> state_after]]

\* collect_app without the level update
collect_app_level_kept(L, d, t_now, tile_id) ==
    LET rej == CollectCheck(d, t_now, tile_id)
        S == OpenSession(d)
        t == d.tiles[tile_id]
        rd == _get_res_def(t.resource)
        base_cd == IF rd # NoneRec THEN rd.base_cooldown ELSE 10
        next_cd == t_now + base_cd * Scale
        new_xp == d.player.xp + XP_PER_COLLECT * Scale
        new_level == level_for_xp(L, new_xp)
        S1 == [S EXCEPT !.cur.tiles[tile_id].cooldown_until = next_cd,
                        !.cur.player.xp = new_xp]
        i == FirstIdx(S1.cur.stocks, "resource", t.resource)
        S2 == IF t.resource = "" THEN S1
              ELSE IF i = 0
              THEN [S1 EXCEPT !.newStocks =
                       Append(@, [resource |-> t.resource, qty |-> 0 + 1 * Scale])]
              ELSE [S1 EXCEPT !.cur.stocks[i].qty = @ + 1 * Scale]
    IN  IF rej # NoneRec THEN [db |-> d, resp |-> rej]
        ELSE CollectCommit(d, [S |-> S2, next |-> next_cd,
                               level_up |-> new_level > d.player.level], tile_id)

\* POST /api/collect (app/__init__.py)
collect_app(L, d, t_now, tile_id) ==
    LET rej == CollectCheck(d, t_now, tile_id)
        S == OpenSession(d)
        t == d.tiles[tile_id]
        rd == _get_res_def(t.resource)
        base_cd == IF rd # NoneRec THEN rd.base_cooldown ELSE 10
        next_cd == t_now + base_cd * Scale
        new_xp == d.player.xp + XP_PER_COLLECT * Scale
        new_level == level_for_xp(L, new_xp)
        S1 == [S EXCEPT !.cur.tiles[tile_id].cooldown_until = next_cd,
                        !.cur.player.xp = new_xp,
                        !.cur.player.level = IF new_level > @ THEN new_level ELSE @]
        i == FirstIdx(S1.cur.stocks, "resource", t.resource)
        S2 == IF t.resource = "" THEN S1
              ELSE IF i = 0
              THEN [S1 EXCEPT !.newStocks =
                       Append(@, [resource |-> t.resource, qty |-> 0 + 1 * Scale])]
              ELSE [S1 EXCEPT !.cur.stocks[i].qty = @ + 1 * Scale]
    IN  IF rej # NoneRec THEN [db |-> d, resp |-> rej]
        ELSE CollectCommit(d, [S |-> S2, next |-> next_cd,
                               level_up |-> new_level > d.player.level], tile_id)

(***************************************************************************)
(* Selling, the daily chest and the card shop                              *)
(***************************************************************************)
\* POST /api/sell (app/__init__.py): the price is read from the enabled
\* resource definitions only
sell_app(d, resource, qty) ==
    IF resource = "" \/ qty <= 0
    THEN Reject(d, "sell", 400, "invalid_payload")
    ELSE LET S == OpenSession(d)
             rd_found == resource \in DOMAIN ResourceDefs /\ ResourceDefs[resource].enabled
             unit_price == IF rd_found THEN ResourceDefs[resource].base_sell_price ELSE 1
             i == FirstIdx(S.cur.stocks, "resource", resource)
             gain == unit_price * qty
         IN  IF i = 0 THEN Reject(d, "sell", 400, "not_enough_stock")
             ELSE IF S.cur.stocks[i].qty < qty * Scale
             THEN Reject(d, "sell", 400, "not_enough_stock")
             ELSE LET S1 == [S EXCEPT !.cur.stocks[i].qty = @ - qty * Scale,
                                      !.cur.player.coins = @ + gain]
                  IN  [db |-> Commit(d, S1).db,
                       resp |-> [op |-> "sell", status |-> 200, error |-> None,
                                 gain |-> gain]]

\* POST /api/sell (routes/api_shop.py); qty is the request's integer
sell(d, resource, qty) ==
    IF resource = ""
    THEN Reject(d, "sell", 400, "invalid_payload")
    ELSE IF qty <= 0 THEN Reject(d, "sell", 400, "invalid_payload")
    ELSE LET S == OpenSession(d)
             i == FirstIdx(S.cur.stocks, "resource", resource)
             unit_price == IF resource \in DOMAIN ResourceDefs
                           THEN ResourceDefs[resource].base_sell_price ELSE 1
             gain == unit_price * qty
         IN  IF i = 0 THEN Reject(d, "sell", 400, "not_enough_stock")
             ELSE IF S.cur.stocks[i].qty < qty * Scale
             THEN Reject(d, "sell", 400, "not_enough_stock")
             ELSE LET S1 == [S EXCEPT !.cur.stocks[i].qty = @ - qty * Scale,
                                      !.cur.player.coins = @ + gain]
                  IN  [db |-> Commit(d, S1).db,
                       resp |-> [op |-> "sell", status |-> 200, error |-> None,
                                 gain |-> gain]]

\* the coins of one daily chest (imported from economy by api_daily)
DAILY_REWARD_COINS == 1

\* claim_daily without the test of last_daily
claim_daily_unchecked(d, today_utc) ==
    LET S == OpenSession(d)
        me == S.cur.player
        new_streak == IF me.last_daily # NullDate /\ me.last_daily = today_utc - 1
                      THEN me.daily_streak + 1 ELSE 1
        S1 == [S EXCEPT !.cur.player.last_daily = today_utc,
                        !.cur.player.daily_streak = new_streak,
                        !.cur.player.best_streak = IF new_streak > @ THEN new_streak ELSE @,
                        !.cur.player.coins = @ + DAILY_REWARD_COINS]
    IN  [db |-> Commit(d, S1).db,
         resp |-> [op |-> "daily", status |-> 200, error |-> None,
                   reward |-> DAILY_REWARD_COINS, next_at |-> today_utc + 1]]

\* claim_daily with a streak that survives a missed day
claim_daily_streak_kept(d, today_utc) ==
    LET S == OpenSession(d)
        me == S.cur.player
        new_streak == me.daily_streak + 1
        S1 == [S EXCEPT !.cur.player.last_daily = today_utc,
                        !.cur.player.daily_streak = new_streak,
                        !.cur.player.best_streak = IF new_streak > @ THEN new_streak ELSE @,
                        !.cur.player.coins = @ + DAILY_REWARD_COINS]
    IN  IF me.last_daily = today_utc
        THEN [db |-> d,
              resp |-> [op |-> "daily", status |-> 409, error |-> "already_claimed",
                        next_at |-> today_utc + 1]]
        ELSE [db |-> Commit(d, S1).db,
              resp |-> [op |-> "daily", status |-> 200, error |-> None,
                        reward |-> DAILY_REWARD_COINS, next_at |-> today_utc + 1]]

\* POST /api/daily (routes/api_daily.py); next_at is the midnight that ends
\* today_utc
claim_daily(d, today_utc) ==
    LET S == OpenSession(d)
        me == S.cur.player
        new_streak == IF me.last_daily # NullDate /\ me.last_daily = today_utc - 1
                      THEN me.daily_streak + 1 ELSE 1
        S1 == [S EXCEPT !.cur.player.last_daily = today_utc,
                        !.cur.player.daily_streak = new_streak,
                        !.cur.player.best_streak = IF new_streak > @ THEN new_streak ELSE @,
                        !.cur.player.coins = @ + DAILY_REWARD_COINS]
    IN  IF me.last_daily = today_utc
        THEN [db |-> d,
              resp |-> [op |-> "daily", status |-> 409, error |-> "already_claimed",
                        next_at |-> today_utc + 1]]
        ELSE [db |-> Commit(d, S1).db,
              resp |-> [op |-> "daily", status |-> 200, error |-> None,
                        reward |-> DAILY_REWARD_COINS, next_at |-> today_utc + 1]]

\* the first resource cost the stock does not cover, 0 when all are covered
RECURSIVE FirstUncovered(_, _, _)
FirstUncovered(S, res_costs, k) ==
    IF k > Len(res_costs) THEN 0
    ELSE LET i == FirstIdx(S.cur.stocks, "resource", res_costs[k].resource)
         IN  IF i = 0 THEN k
             ELSE IF S.cur.stocks[i].qty < res_costs[k].needed * Scale THEN k
             ELSE FirstUncovered(S, res_costs, k + 1)

\* DeductResources taking every resource cost twice
RECURSIVE DeductResourcesTwice(_, _)
DeductResourcesTwice(S, res_costs) ==
    IF res_costs = <<>> THEN S
    ELSE LET i == FirstIdx(S.cur.stocks, "resource", Head(res_costs).resource)
         IN  DeductResourcesTwice(
                 [S EXCEPT !.cur.stocks[i].qty = @ - 2 * Head(res_costs).needed * Scale],
                 Tail(res_costs))

RECURSIVE DeductResources(_, _)
DeductResources(S, res_costs) ==
    IF res_costs = <<>> THEN S
    ELSE LET i == FirstIdx(S.cur.stocks, "resource", Head(res_costs).resource)
         IN  DeductResources(
                 [S EXCEPT !.cur.stocks[i].qty = @ - Head(res_costs).needed * Scale],
                 Tail(res_costs))

\* POST /api/cards/buy (routes/api_cards.py)
buy_card(d, t_now, card_key, price_index) ==
    IF card_key = "" THEN Reject(d, "buy_card", 400, "card_key_required")
    ELSE IF card_key \notin DOMAIN CardDefs
    THEN Reject(d, "buy_card", 404, "card_not_found_or_disabled")
    ELSE IF ~CardDefs[card_key].enabled
    THEN Reject(d, "buy_card", 404, "card_not_found_or_disabled")
    ELSE LET S == OpenSession(d)
             p == S.cur.player
             cd == CardDefs[card_key]
             shop_cfg == cd.shop
             prices == DictGet(shop_cfg, "prices", <<>>)
             price_cfg == prices[price_index + 1]
             buy_rules == IF DictGet(shop_cfg, "buy_rules", NoneRec) # NoneRec
                          THEN shop_cfg.buy_rules ELSE cd.unlock_rules
             chk == check_unlock_rules(p, buy_rules)
             o == FirstIdx(S.cur.cards, "card_key", cd.key)
             current_qty == IF o = 0 THEN 0 ELSE S.cur.cards[o].qty
             max_owned == DictGet(shop_cfg, "max_owned", cd.card_max_owned)
             quantity == DictGet(shop_cfg, "quantity", cd.card_quantity)
             purchase_limit == IF DictGet(shop_cfg, "purchase_limit", NullTime) # NullTime
                               THEN shop_cfg.purchase_limit
                               ELSE cd.card_purchase_limit_quantity
             coins_cost == DictGet(price_cfg, "coins", 0)
             diams_cost == DictGet(price_cfg, "diams", 0)
             res_costs == DictGet(price_cfg, "resources", <<>>)
             S1 == [S EXCEPT !.cur.player.coins = @ - coins_cost,
                             !.cur.player.diams = @ - diams_cost]
             S2 == DeductResources(S1, res_costs)
             S3 == IF o = 0
                   THEN [S2 EXCEPT !.newCards = Append(@, [card_key |-> cd.key, qty |-> 1])]
                   ELSE [S2 EXCEPT !.cur.cards[o].qty = @ + 1]
         IN  IF prices = <<>> THEN Reject(d, "buy_card", 500, "no_price_defined_for_card")
             ELSE IF price_index < 0 \/ price_index >= Len(prices)
             THEN Reject(d, "buy_card", 400, "invalid_price_index")
             ELSE IF ~chk.ok THEN Reject(d, "buy_card", 403, chk.info.reason)
             ELSE IF max_owned # NoneInt /\ current_qty >= max_owned
             THEN Reject(d, "buy_card", 400, "max_owned_reached")
             ELSE IF quantity # NoneInt /\ quantity > 0 /\ quantity - current_qty <= 0
             THEN Reject(d, "buy_card", 400, "sold_out")
             ELSE IF purchase_limit # NullTime /\ t_now > purchase_limit
             THEN Reject(d, "buy_card", 400, "purchase_expired")
             ELSE IF p.coins < coins_cost THEN Reject(d, "buy_card", 400, "not_enough_coins")
             ELSE IF p.diams < diams_cost THEN Reject(d, "buy_card", 400, "not_enough_diams")
             ELSE IF FirstUncovered(S, res_costs, 1) # 0
             THEN Reject(d, "buy_card", 400, "not_enough_resource")
             ELSE [db |-> Commit(d, S3).db,
                   resp |-> [op |-> "buy_card", status |-> 200, error |-> None,
                             owned_qty |-> current_qty + 1]]

(***************************************************************************)
(* Crafting (craft_defs.py, routes/api_craft.py) and the village shop      *)
(* (village_shop.py, routes/api_cards.py)                                  *)
(***************************************************************************)
\* crafts.yml after load_craft_defs: a rope made of two branches, an axe made
\* of a branch and a stone on a level-2 table, a shell that has no recipe; a
\* pattern line is the sequence of its symbols
CraftDefs ==
    [ item_rope |->
        [key |-> "item_rope", unlock_condition |-> NoneRec,
         recipe |-> [craft_location |-> "craft_table",
                     pattern |-> << <<"B", "B">> >>,
                     legend |-> [B |-> [key |-> "branch", quantity |-> 1]],
                     output_quantity |-> 1, required_table_level |-> 1]],
      item_axe |->
        [key |-> "item_axe", unlock_condition |-> [type |-> "level", min_level |-> 1],
         recipe |-> [craft_location |-> "craft_table",
                     pattern |-> << <<"B", ".">>, <<"S", "?">> >>,
                     legend |-> [B |-> [key |-> "branch", quantity |-> 1],
                                 S |-> [key |-> "stone", quantity |-> 2]],
                     output_quantity |-> 1, required_table_level |-> 2]],
      item_shell |->
        [key |-> "item_shell", unlock_condition |-> NoneRec, recipe |-> NoneRec] ]

\* village_shop.yml: the cooldown card on offer on day 0 and day 1, an
\* offer that is over, an offer of something that is no card
VillageOffers ==
    << [key |-> "week_cd", enabled |-> TRUE, start_date |-> 0, end_date |-> 1,
        item_type |-> "card", item_key |-> "cd_stone", limit_per_player |-> 2],
       [key |-> "old_xp", enabled |-> TRUE, start_date |-> 0 - 3, end_date |-> 0 - 2,
        item_type |-> "card", item_key |-> "xp_plus", limit_per_player |-> NoneInt],
       [key |-> "week_item", enabled |-> TRUE, start_date |-> 0, end_date |-> 1,
        item_type |-> "item", item_key |-> "item_rope", limit_per_player |-> NoneInt] >>

get_active_village_offers(today_local) ==
    SelectSeq(VillageOffers,
              LAMBDA offer : /\ offer.enabled
                             /\ offer.start_date <= today_local
                             /\ today_local <= offer.end_date)

_player_has_card(S, card_key) ==
    card_key # "" /\ FirstIdx(S.cur.cards, "card_key", card_key) # 0

_compute_craft_table_level(S) ==
    LET l1 == 1
        l2 == IF _player_has_card(S, "craft_upgrade_1") THEN Max(l1, 2) ELSE l1
    IN  IF _player_has_card(S, "craft_upgrade_2") THEN Max(l2, 3) ELSE l2

_is_item_unlocked_for_player(S, item_cfg, table_level) ==
    LET recipe == item_cfg.recipe
        unlock == item_cfg.unlock_condition
    IN  IF recipe = NoneRec THEN FALSE
        ELSE IF table_level < recipe.required_table_level THEN FALSE
        ELSE IF unlock = NoneRec THEN TRUE
        ELSE IF unlock.type = "card" THEN _player_has_card(S, unlock.key)
        ELSE IF unlock.type = "level" THEN S.cur.player.level >= unlock.min_level
        ELSE TRUE

RECURSIVE Flatten(_)
Flatten(lines) == IF lines = <<>> THEN <<>> ELSE Head(lines) \o Flatten(Tail(lines))

\* what the symbols of a pattern ask of one resource
RECURSIVE SlotsNeeded(_, _, _)
SlotsNeeded(symbols, legend, res_key) ==
    IF symbols = <<>> THEN 0
    ELSE (IF Head(symbols) # "." /\ Head(symbols) \in DOMAIN legend
             /\ legend[Head(symbols)].key = res_key
          THEN legend[Head(symbols)].quantity ELSE 0)
         + SlotsNeeded(Tail(symbols), legend, res_key)

\* _compute_required_resources: resource key -> total quantity
_compute_required_resources(recipe, times) ==
    LET symbols == Flatten(recipe.pattern)
        keys == {recipe.legend[symbols[k]].key :
                    k \in {j \in 1..Len(symbols) :
                              symbols[j] # "." /\ symbols[j] \in DOMAIN recipe.legend}}
    IN  [res_key \in keys |->
            SlotsNeeded(symbols, recipe.legend, res_key) * Max(times, 1)]

\* the stock rows after the deduction loop of perform_craft
CraftDeduct(stocks, required) ==
    [k \in 1..Len(stocks) |->
        IF stocks[k].resource \notin DOMAIN required THEN stocks[k]
        ELSE [stocks[k] EXCEPT
                 !.qty = IF @ - required[stocks[k].resource] * Scale < 0 THEN 0
                         ELSE @ - required[stocks[k].resource] * Scale]]

\* POST /api/craft/perform (routes/api_craft.py)
perform_craft(d, item_key, craft_location, times_given) ==
    LET times == IF times_given < 1 THEN 1 ELSE times_given
        item_cfg == CraftDefs[item_key]
        recipe == item_cfg.recipe
        S == OpenSession(d)
        table_level == _compute_craft_table_level(S)
        required == _compute_required_resources(recipe, times)
        missing == {res_key \in DOMAIN required :
                       StockQty(S.cur.stocks, res_key) < required[res_key] * Scale}
        output_qty == recipe.output_quantity * times
        pi == FirstIdx(S.cur.items, "item_key", item_cfg.key)
        S1 == [S EXCEPT !.cur.stocks = CraftDeduct(@, required),
                        !.cur.items =
                            IF pi = 0
                            THEN Append(@, [item_key |-> item_cfg.key,
                                            quantity |-> output_qty])
                            ELSE [@ EXCEPT ![pi].quantity = @ + output_qty]]
        S2 == on_item_crafted(S1, item_cfg.key, output_qty)
    IN  IF item_key = "" THEN Reject(d, "craft", 400, "item_key_required")
        ELSE IF item_key \notin DOMAIN CraftDefs
        THEN Reject(d, "craft", 400, "unknown_item_key")
        ELSE IF recipe = NoneRec THEN Reject(d, "craft", 400, "item_not_craftable")
        ELSE IF recipe.craft_location # craft_location
        THEN Reject(d, "craft", 400, "invalid_craft_location")
        ELSE IF ~_is_item_unlocked_for_player(S, item_cfg, table_level)
        THEN Reject(d, "craft", 403, "craft_locked")
        ELSE IF table_level < recipe.required_table_level
        THEN Reject(d, "craft", 403, "craft_table_too_low")
        ELSE IF DOMAIN required = {}
        THEN Reject(d, "craft", 500, "invalid_recipe_definition")
        ELSE IF missing # {} THEN Reject(d, "craft", 400, "not_enough_resources")
        ELSE [db |-> Commit(d, S2).db,
              resp |-> [op |-> "craft", status |-> 200, error |-> None,
                        quantity |-> output_qty]]

\* POST /api/village/shop/buy (routes/api_cards.py)
buy_village_offer(d, today_local, offer_key) ==
    LET active_offers == get_active_village_offers(today_local)
        oi == FirstIdx(active_offers, "key", offer_key)
        offer == active_offers[oi]
        S == OpenSession(d)
        p == S.cur.player
        cd == CardDefs[offer.item_key]
        shop_cfg == cd.shop
        o == FirstIdx(S.cur.cards, "card_key", cd.key)
        current_qty == IF o = 0 THEN 0 ELSE S.cur.cards[o].qty
        limit_per_player == offer.limit_per_player
        max_owned == DictGet(shop_cfg, "max_owned", cd.card_max_owned)
        prices == DictGet(shop_cfg, "prices", <<>>)
        price_cfg == prices[1]
        coins_cost == DictGet(price_cfg, "coins", 0)
        diams_cost == DictGet(price_cfg, "diams", 0)
        res_costs == DictGet(price_cfg, "resources", <<>>)
        S1 == [S EXCEPT !.cur.player.coins = @ - coins_cost,
                        !.cur.player.diams = @ - diams_cost]
        S2 == DeductResources(S1, res_costs)
        S3 == IF o = 0
              THEN [S2 EXCEPT !.newCards = Append(@, [card_key |-> cd.key, qty |-> 1])]
              ELSE [S2 EXCEPT !.cur.cards[o].qty = @ + 1]
    IN  IF offer_key = "" THEN Reject(d, "buy_village_offer", 400, "offer_key_required")
        ELSE IF oi = 0 THEN Reject(d, "buy_village_offer", 400, "offer_not_active")
        ELSE IF offer.item_type # "card"
        THEN Reject(d, "buy_village_offer", 400, "unsupported_item_type")
        ELSE IF offer.item_key = ""
        THEN Reject(d, "buy_village_offer", 500, "offer_missing_item_key")
        ELSE IF offer.item_key \notin DOMAIN CardDefs
        THEN Reject(d, "buy_village_offer", 404, "card_not_found_or_disabled")
        ELSE IF ~cd.enabled
        THEN Reject(d, "buy_village_offer", 404, "card_not_found_or_disabled")
        ELSE IF limit_per_player # NoneInt /\ current_qty >= limit_per_player
        THEN Reject(d, "buy_village_offer", 400, "village_limit_reached")
        ELSE IF max_owned # NoneInt /\ current_qty >= max_owned
        THEN Reject(d, "buy_village_offer", 400, "max_owned_reached")
        ELSE IF prices = <<>>
        THEN Reject(d, "buy_village_offer", 500, "no_price_defined_for_card")
        ELSE IF p.coins < coins_cost
        THEN Reject(d, "buy_village_offer", 400, "not_enough_coins")
        ELSE IF p.diams < diams_cost
        THEN Reject(d, "buy_village_offer", 400, "not_enough_diams")
        ELSE IF FirstUncovered(S, res_costs, 1) # 0
        THEN Reject(d, "buy_village_offer", 400, "not_enough_resource")
        ELSE [db |-> Commit(d, S3).db,
              resp |-> [op |-> "buy_village_offer", status |-> 200, error |-> None,
                        owned_qty |-> current_qty + 1]]

(***************************************************************************)
(* Quest creation (quests/service.py)                                      *)
(***************************************************************************)
BASE_MAX_QUESTS == 10

\* QUEST_TEMPLATES: one daily template asking for branches
QuestTemplates ==
    [ daily_branch |->
        [quest_type |-> "daily",
         objective_templates |-> <<[kind |-> "collect_resource", resource_key |-> "branch",
                                    quantity_min |-> 2, quantity_max |-> 2]>>,
         reward_templates |-> [coins_min |-> 3, coins_max |-> 3,
                               diams_min |-> 0, diams_max |-> 0]] ]

count_active_quests(d) ==
    Cardinality({i \in 1..Len(d.quests) : d.quests[i].status = "active"})

can_player_receive_quest(d) == count_active_quests(d) < BASE_MAX_QUESTS

\* the quest built from a template for drawn target and rewards
create_quest_instance_from_template(template_key, target, coins, diams) ==
    LET tpl == QuestTemplates[template_key]
        obj_tpl == tpl.objective_templates[1]
    IN  [status |-> "active",
         rewards_json |-> [coins |-> coins, diams |-> diams],
         objectives |-> <<[kind |-> obj_tpl.kind, resource_key |-> obj_tpl.resource_key,
                           item_key |-> None, target_value |-> target,
                           current_value |-> 0]>>]

(***************************************************************************)
(* State machine                                                           *)
(***************************************************************************)
ReqIds == {1, 2}

InitDb ==
    [player |-> [level |-> 0, xp |-> 0, coins |-> 0, diams |-> 0,
                 last_daily |-> NullDate, daily_streak |-> 0, best_streak |-> 0],
     tiles  |-> <<>>,
     stocks |-> <<>>,
     cards  |-> <<>>,
     quests |-> <<>>,
     land_slots |-> <<>>,
     items  |-> <<>>]

NoResp == [op |-> "none", status |-> 0, error |-> None]
IdleReq == [pc |-> "idle", tile |-> 0, t_now |-> 0, seen |-> NullTime,
            S |-> NoneRec, w |-> NoneRec, resp |-> NoResp]
NoCalc == [fn |-> "none"]

InitCommon ==
    /\ today = 0
    /\ now = 0
    /\ db = InitDb
    /\ resp = NoResp
    /\ reqs = [r \in ReqIds |-> IdleReq]
    /\ calc = NoCalc

\* a player just created, under any bounded level table
Init ==
    /\ LEVELS \in GameLevelTables
    /\ InitCommon

\* a player just created, under the level table loaded when levels.yml is absent
InitDefault ==
    /\ LEVELS = DefaultLevels
    /\ InitCommon

\* the clock advances by the cooldown of a branch tile: a tile collected at
\* one tick is ready exactly at the next, a stone tile only at the one after
TickStep == ResourceDefs.branch.base_cooldown * Scale

Tick ==
    /\ now < MaxTicks * TickStep
    /\ now' = now + TickStep
    /\ UNCHANGED <<LEVELS, today, db, resp, reqs, calc>>

\* the resources the game requests name: two known ones, none, an unknown one
RequestedResources == {"branch", "stone", "", "gold"}

UnlockTile ==
    \E resource \in RequestedResources :
        LET r == unlock_tile(db, resource)
        IN  /\ Len(db.tiles) < MaxTiles
            /\ db' = r.db
            /\ resp' = r.resp @@ [resource |-> resource]
            /\ UNCHANGED <<LEVELS, today, now, reqs, calc>>

UnlockTileApp ==
    \E resource \in RequestedResources :
        LET r == unlock_tile_app(db, resource)
        IN  /\ Len(db.tiles) < MaxTiles
            /\ db' = r.db
            /\ resp' = r.resp @@ [resource |-> resource]
            /\ UNCHANGED <<LEVELS, today, now, reqs, calc>>

Collect ==
    \E tile_id \in 0..MaxTiles :
        LET r == collect(LEVELS, db, now, tile_id)
        IN  /\ db.player.xp < MaxXp * Scale
            /\ db' = r.db
            /\ resp' = r.resp @@ [tileId |-> tile_id]
            /\ UNCHANGED <<LEVELS, today, now, reqs, calc>>

CollectApp ==
    \E tile_id \in 0..MaxTiles :
        LET r == collect_app(LEVELS, db, now, tile_id)
        IN  /\ db.player.xp < MaxXp * Scale
            /\ db' = r.db
            /\ resp' = r.resp @@ [tileId |-> tile_id]
            /\ UNCHANGED <<LEVELS, today, now, reqs, calc>>

DebugCreateQuest ==
    \E template_key \in DOMAIN QuestTemplates :
        LET tpl == QuestTemplates[template_key]
            obj_tpl == tpl.objective_templates[1]
        IN  \E target \in obj_tpl.quantity_min .. obj_tpl.quantity_max,
               coins \in tpl.reward_templates.coins_min .. tpl.reward_templates.coins_max,
               diams \in tpl.reward_templates.diams_min .. tpl.reward_templates.diams_max :
                /\ Len(db.quests) < MaxQuests
                /\ can_player_receive_quest(db)
                /\ db' = [db EXCEPT !.quests =
                             Append(@, create_quest_instance_from_template(
                                           template_key, target, coins, diams))]
                /\ resp' = [op |-> "debug_quest", status |-> 200, error |-> None]
                /\ UNCHANGED <<LEVELS, today, now, reqs, calc>>

SellQtys == 0..2

Sell ==
    \E resource \in RequestedResources, qty \in SellQtys :
        LET r == sell(db, resource, qty)
        IN  /\ db' = r.db
            /\ resp' = r.resp @@ [resource |-> resource, qty |-> qty]
            /\ UNCHANGED <<LEVELS, today, now, reqs, calc>>

\* midnight UTC passes
NextDay ==
    /\ today < MaxDays
    /\ today' = today + 1
    /\ UNCHANGED <<LEVELS, now, db, resp, reqs, calc>>

ClaimDaily ==
    LET r == claim_daily(db, today)
    IN  /\ db' = r.db
        /\ resp' = r.resp
        /\ UNCHANGED <<LEVELS, today, now, reqs, calc>>

\* the cards the shop requests name
RequestedCards == {"cd_all", "xp_plus", "br_boost", "", "nope"}

BuyCard ==
    \E card_key \in RequestedCards, price_index \in 0..1 :
        LET r == buy_card(db, now, card_key, price_index)
        IN  /\ db' = r.db
            /\ resp' = r.resp @@ [card_key |-> card_key]
            /\ UNCHANGED <<LEVELS, today, now, reqs, calc>>

Next ==
    \/ Tick
    \/ UnlockTile
    \/ UnlockTileApp
    \/ Collect
    \/ CollectApp
    \/ DebugCreateQuest

Spec == Init /\ [][Next]_vars

SpecDefault == InitDefault /\ [][Next]_vars

(***************************************************************************)
(* apply_xp_and_level_up called on its own, inside one transaction         *)
(***************************************************************************)
Gains == {0 - Scale, 0, Scale, 2 * Scale}

GrantXp ==
    \E gained_xp \in Gains :
        LET a == apply_xp_and_level_up(LEVELS, OpenSession(db), gained_xp)
            c == Commit(db, a.S)
            ok == a.S.err = "" /\ c.ok
        IN  /\ db.player.xp < MaxXp * Scale
            /\ db' = IF ok THEN c.db ELSE db
            /\ resp' = [op |-> "grant_xp",
                        status |-> IF ok THEN 200 ELSE 500,
                        error |-> IF a.S.err # "" THEN a.S.err
                                  ELSE IF ~c.ok THEN "IntegrityError" ELSE None,
                        gained_xp |-> gained_xp,
                        level_up |-> a.level_up, new_level |-> a.new_level,
                        all_rewards |-> a.all_rewards,
                        xp_after |-> a.S.cur.player.xp]
            /\ UNCHANGED <<LEVELS, today, now, reqs, calc>>

InitXp ==
    /\ LEVELS \in LevelTables
    /\ InitCommon

\* progression alone: only XP grants
SpecXp == InitXp /\ [][GrantXp]_vars

\* the game together with direct XP grants
NextAll ==
    \/ Tick
    \/ UnlockTile
    \/ Collect
    \/ CollectApp
    \/ Sell
    \/ NextDay
    \/ ClaimDaily
    \/ BuyCard
    \/ GrantXp

\* level tables of two levels reached at 1 and 2 XP, one per reward list
TwoLevelTables ==
    { [lvl \in {1, 2} |-> [xp_required |-> lvl, rewards |-> rl]] : rl \in RewardLists }

InitAll ==
    /\ LEVELS \in TwoLevelTables
    /\ InitCommon

\* the whole game together with direct XP grants
SpecAll == InitAll /\ [][NextAll]_vars

(***************************************************************************)
(* Two collect requests in flight at once.  Each runs in its own session:  *)
(* the tile is read and tested, then the other rows are read and changed   *)
(* in the session, then the session commits.  Nothing locks the tile row   *)
(* between the test and the commit.                                        *)
(***************************************************************************)
ReqCheck(r) ==
    \E tile_id \in 1..MaxTiles :
        LET rej == CollectCheck(db, now, tile_id)
        IN  /\ reqs[r].pc = "idle"
            /\ tile_id <= Len(db.tiles)
            /\ db.player.xp < MaxXp * Scale
            /\ reqs' = [reqs EXCEPT ![r] =
                  IF rej # NoneRec
                  THEN [@ EXCEPT !.pc = "done", !.tile = tile_id, !.t_now = now,
                                 !.resp = rej]
                  ELSE [@ EXCEPT !.pc = "checked", !.tile = tile_id, !.t_now = now,
                                 !.seen = db.tiles[tile_id].cooldown_until,
                                 !.S = OpenSession(db)]]
            /\ UNCHANGED <<LEVELS, today, now, db, resp, calc>>

ReqWork(r) ==
    LET held == reqs[r].S
        S == [OpenSession(db) EXCEPT !.loaded.tiles = held.loaded.tiles,
                                     !.cur.tiles = held.cur.tiles]
    IN  /\ reqs[r].pc = "checked"
        /\ reqs' = [reqs EXCEPT ![r].pc = "worked",
                                ![r].S = S,
                                ![r].w = CollectWork(LEVELS, S, reqs[r].t_now,
                                                     reqs[r].tile)]
        /\ UNCHANGED <<LEVELS, today, now, db, resp, calc>>

ReqCommit(r) ==
    LET res == CollectCommit(db, reqs[r].w, reqs[r].tile)
    IN  /\ reqs[r].pc = "worked"
        /\ db' = res.db
        /\ reqs' = [reqs EXCEPT ![r].pc = "done", ![r].resp = res.resp,
                                ![r].S = NoneRec, ![r].w = NoneRec]
        /\ UNCHANGED <<LEVELS, today, now, resp, calc>>

NextConc ==
    \/ Tick
    \/ UnlockTile
    \/ \E r \in ReqIds : ReqCheck(r)
    \/ \E r \in ReqIds : ReqWork(r)
    \/ \E r \in ReqIds : ReqCommit(r)

SpecConc == Init /\ [][NextConc]_vars

(***************************************************************************)
(* A player who already owns cards                                          *)
(***************************************************************************)
\* one PlayerCard row of any defined card, qty 1 .. MaxQty
OwnedCardRows == [card_key : CardKeys, qty : 1..MaxQty]

InitBoost ==
    /\ LEVELS = DefaultLevels
    /\ today = 0
    /\ now = 0
    /\ db \in {[InitDb EXCEPT !.cards = <<pc>>] : pc \in OwnedCardRows}
    /\ resp = NoResp
    /\ reqs = [r \in ReqIds |-> IdleReq]
    /\ calc = NoCalc

NextBoost ==
    \/ Tick
    \/ UnlockTile
    \/ Collect
    \/ DebugCreateQuest

SpecBoost == InitBoost /\ [][NextBoost]_vars

(***************************************************************************)
(* Land-mode collection                                                    *)
(***************************************************************************)
\* the request's slot: absent, or an integer from -1
SlotInputs ==
    {[given |-> FALSE, value |-> 0]}
    \cup [given : {TRUE}, value : (0 - 1)..MaxSlot]

RequestedLands == DOMAIN LandDefs \cup {"nowhere"}

\* what _roll_land_loot can return for the land's "hands" tool
LandRolls(land_key) ==
    IF land_key \in DOMAIN LandDefs /\ "hands" \in DOMAIN LandDefs[land_key].tools
    THEN _roll_land_loot(LandDefs[land_key].tools.hands)
    ELSE {<<>>}

CollectLand ==
    \E land_key \in RequestedLands, slot \in SlotInputs :
        \E raw_loot \in LandRolls(land_key) :
            LET r == collect_land(LEVELS, db, now, land_key, slot, raw_loot)
            IN  /\ db.player.xp < MaxXp * Scale
                /\ db' = r.db
                /\ resp' = r.resp @@ [land |-> land_key, slot |-> slot,
                                      raw_loot |-> raw_loot]
                /\ UNCHANGED <<LEVELS, today, now, reqs, calc>>

\* the cards a player starts with: none, a land card, or the forest card
\* and two units of a boost card
LandCardSets ==
    {<<>>}
    \cup {<<[card_key |-> k, qty |-> 1]>> : k \in {"land_forest", "land_beach"}}
    \cup {<<[card_key |-> "land_forest", qty |-> 1], [card_key |-> k, qty |-> 2]>> :
             k \in {"br_boost", "loot_forest", "xp_plus"}}

\* the fallback level table and the rewarding tables reaching level 1 at
\* 1 XP
LandLevelTables ==
    {DefaultLevels}
    \cup {t \in GameLevelTables :
             DOMAIN t = {1} /\ t[1].xp_required = 1 /\ t[1].rewards # <<>>}

InitLand ==
    /\ LEVELS \in LandLevelTables
    /\ today = 0
    /\ now = 0
    /\ db \in {[InitDb EXCEPT !.cards = cs] : cs \in LandCardSets}
    /\ resp = NoResp
    /\ reqs = [r \in ReqIds |-> IdleReq]
    /\ calc = NoCalc

NextLand ==
    \/ UnlockTile
    \/ Collect
    \/ CollectLand
    \/ DebugCreateQuest

SpecLand == InitLand /\ [][NextLand]_vars

(***************************************************************************)
(* Tile unlocking by a player who levels up: both unlock routes, every     *)
(* resource of resource_defs, an unknown key and a missing one             *)
(***************************************************************************)
MaxUnlocks == 2

UnlockRequests == ResourceKeys \cup {"", "gold"}

UnlockAnyTile ==
    \E resource \in UnlockRequests :
        LET r == unlock_tile(db, resource)
        IN  /\ Len(db.tiles) < MaxUnlocks
            /\ db' = r.db
            /\ resp' = r.resp @@ [resource |-> resource]
            /\ UNCHANGED <<LEVELS, today, now, reqs, calc>>

UnlockAnyTileApp ==
    \E resource \in UnlockRequests :
        LET r == unlock_tile_app(db, resource)
        IN  /\ Len(db.tiles) < MaxUnlocks
            /\ db' = r.db
            /\ resp' = r.resp @@ [resource |-> resource]
            /\ UNCHANGED <<LEVELS, today, now, reqs, calc>>

\* a new player, with or without a card of type unlock_resource for stone
InitUnlock ==
    /\ LEVELS \in TwoLevelTables
    /\ today = 0
    /\ now = 0
    /\ db \in {[InitDb EXCEPT !.cards = cs]
                 : cs \in {<<>>, <<[card_key |-> "unlock_stone", qty |-> 1]>>}}
    /\ resp = NoResp
    /\ reqs = [r \in ReqIds |-> IdleReq]
    /\ calc = NoCalc

NextUnlock ==
    \/ GrantXp
    \/ UnlockAnyTile
    \/ UnlockAnyTileApp

SpecUnlock == InitUnlock /\ [][NextUnlock]_vars

(***************************************************************************)
(* The daily chest over several UTC days                                   *)
(***************************************************************************)
MaxDailyDays == 5

Midnight ==
    /\ today < MaxDailyDays
    /\ today' = today + 1
    /\ UNCHANGED <<LEVELS, now, db, resp, reqs, calc>>

InitDaily ==
    /\ LEVELS = DefaultLevels
    /\ InitCommon

NextDaily ==
    \/ Midnight
    \/ ClaimDaily

SpecDaily == InitDaily /\ [][NextDaily]_vars

(***************************************************************************)
(* Land slots bought and collected on                                      *)
(***************************************************************************)
BuyLandSlot ==
    \E land_key \in RequestedLands :
        LET r == buy_land_slot(db, land_key)
        IN  /\ db' = r.db
            /\ resp' = r.resp @@ [land |-> land_key]
            /\ UNCHANGED <<LEVELS, today, now, reqs, calc>>

\* a player owning the forest card, with or without a free-slot card for
\* the forest, and with no diams or enough for two slots
InitSlots ==
    /\ LEVELS = DefaultLevels
    /\ today = 0
    /\ now = 0
    /\ db \in {[InitDb EXCEPT !.cards = cs, !.player.diams = dm]
                 : cs \in {<<[card_key |-> "land_forest", qty |-> 1]>>,
                           <<[card_key |-> "land_forest", qty |-> 1],
                             [card_key |-> "land_forest_free_slot", qty |-> 1]>>},
                   dm \in {0, 5}}
    /\ resp = NoResp
    /\ reqs = [r \in ReqIds |-> IdleReq]
    /\ calc = NoCalc

NextSlots ==
    \/ BuyLandSlot
    \/ CollectLand

SpecSlots == InitSlots /\ [][NextSlots]_vars

(***************************************************************************)
(* The quest hooks called on their own, each inside one transaction, for a *)
(* player holding one or two quests                                        *)
(***************************************************************************)
\* quests as create_quest_instance_from_template leaves them: active, every
\* objective at 0
QuestShapes ==
    { [status |-> "active", rewards_json |-> [coins |-> 3, diams |-> 0],
       objectives |-> <<[kind |-> "collect_resource", resource_key |-> "branch",
                         item_key |-> None, target_value |-> 2, current_value |-> 0]>>],
      [status |-> "active", rewards_json |-> [coins |-> 1, diams |-> 1],
       objectives |-> <<[kind |-> "collect_resource", resource_key |-> "branch",
                         item_key |-> None, target_value |-> 1, current_value |-> 0],
                        [kind |-> "craft_item", resource_key |-> None,
                         item_key |-> "item_rope", target_value |-> 2,
                         current_value |-> 0]>>],
      [status |-> "active", rewards_json |-> [coins |-> 0, diams |-> 2],
       objectives |-> <<[kind |-> "craft_item", resource_key |-> None,
                         item_key |-> "item_rope", target_value |-> 1,
                         current_value |-> 0]>>] }

MaxHookQuests == 2

HookAmounts == (0 - 1)..2

OnResourceCollected ==
    \E resource_key \in {"branch", "stone"}, base_amount \in HookAmounts :
        /\ db' = Commit(db, on_resource_collected(OpenSession(db), resource_key,
                                                  base_amount)).db
        /\ resp' = [op |-> "on_resource_collected", status |-> 200, error |-> None,
                    key |-> resource_key, amount |-> base_amount]
        /\ UNCHANGED <<LEVELS, today, now, reqs, calc>>

OnItemCrafted ==
    \E item_key \in {"item_rope", "item_axe"}, quantity \in HookAmounts :
        /\ db' = Commit(db, on_item_crafted(OpenSession(db), item_key, quantity)).db
        /\ resp' = [op |-> "on_item_crafted", status |-> 200, error |-> None,
                    key |-> item_key, amount |-> quantity]
        /\ UNCHANGED <<LEVELS, today, now, reqs, calc>>

InitQuests ==
    /\ LEVELS = DefaultLevels
    /\ today = 0
    /\ now = 0
    /\ db \in {[InitDb EXCEPT !.quests = qs]
                 : qs \in UNION {[1..n -> QuestShapes] : n \in 1..MaxHookQuests}}
    /\ resp = NoResp
    /\ reqs = [r \in ReqIds |-> IdleReq]
    /\ calc = NoCalc

NextQuests ==
    \/ OnResourceCollected
    \/ OnItemCrafted

SpecQuests == InitQuests /\ [][NextQuests]_vars

(***************************************************************************)
(* Selling from a stock of several resources, by both sell routes          *)
(***************************************************************************)
SoldResources == {"branch", "gem", "gold", "mud", "stone", ""}

SoldQtys == (0 - 1)..2

SellAny ==
    \E resource \in SoldResources, qty \in SoldQtys :
        LET r == sell(db, resource, qty)
        IN  /\ db' = r.db
            /\ resp' = r.resp @@ [resource |-> resource, qty |-> qty, route |-> "api"]
            /\ UNCHANGED <<LEVELS, today, now, reqs, calc>>

SellAnyApp ==
    \E resource \in SoldResources, qty \in SoldQtys :
        LET r == sell_app(db, resource, qty)
        IN  /\ db' = r.db
            /\ resp' = r.resp @@ [resource |-> resource, qty |-> qty, route |-> "app"]
            /\ UNCHANGED <<LEVELS, today, now, reqs, calc>>

\* a player with no stock, or with one and a half branches, two gems, a gold
\* (which no resource definition names) and a mud (whose definition is
\* disabled)
InitSell ==
    /\ LEVELS = DefaultLevels
    /\ today = 0
    /\ now = 0
    /\ db \in {[InitDb EXCEPT !.stocks = st]
                 : st \in {<<>>,
                           <<[resource |-> "branch", qty |-> 15 * (Scale \div 10)],
                             [resource |-> "gem", qty |-> 2 * Scale],
                             [resource |-> "gold", qty |-> 1 * Scale],
                             [resource |-> "mud", qty |-> 1 * Scale]>>}}
    /\ resp = NoResp
    /\ reqs = [r \in ReqIds |-> IdleReq]
    /\ calc = NoCalc

NextSell ==
    \/ SellAny
    \/ SellAnyApp

SpecSell == InitSell /\ [][NextSell]_vars

(***************************************************************************)
(* The economy of one player: a land collect with its level-up, selling,   *)
(* the card shop, the village shop, land slots, crafting, the daily chest  *)
(***************************************************************************)
MaxEconXp == 1

\* one level, reached by the first collect, paying a coin and a diam
EconLevels ==
    <<[xp_required |-> 1,
       rewards |-> <<[type |-> "coins", amount |-> 1], [type |-> "diams", amount |-> 1]>>]>>

CollectForest ==
    \E slot \in {0}, raw_loot \in LandRolls("forest") :
        LET r == collect_land(LEVELS, db, now, "forest",
                              [given |-> TRUE, value |-> slot], raw_loot)
        IN  /\ db.player.xp < MaxEconXp * Scale
            /\ db' = r.db
            /\ resp' = r.resp @@ [land |-> "forest",
                                  slot |-> [given |-> TRUE, value |-> slot],
                                  raw_loot |-> raw_loot]
            /\ UNCHANGED <<LEVELS, today, now, reqs, calc>>

SellBranches ==
    \E qty \in {2} :
        LET r == sell(db, "branch", qty)
        IN  /\ db' = r.db
            /\ resp' = r.resp @@ [resource |-> "branch", qty |-> qty]
            /\ UNCHANGED <<LEVELS, today, now, reqs, calc>>

ShopCards == {"cd_all", "xp_plus", "res_all", "cd_stone", "nope"}

BuyShopCard ==
    \E card_key \in ShopCards :
        LET r == buy_card(db, now, card_key, 0)
        IN  /\ db' = r.db
            /\ resp' = r.resp @@ [card_key |-> card_key]
            /\ UNCHANGED <<LEVELS, today, now, reqs, calc>>

BuyVillageOffer ==
    \E offer_key \in {"week_cd", "old_xp", "week_item"} :
        LET r == buy_village_offer(db, today, offer_key)
        IN  /\ db' = r.db
            /\ resp' = r.resp @@ [offer_key |-> offer_key]
            /\ UNCHANGED <<LEVELS, today, now, reqs, calc>>

BuyForestSlot ==
    LET r == buy_land_slot(db, "forest")
    IN  /\ db' = r.db
        /\ resp' = r.resp @@ [land |-> "forest"]
        /\ UNCHANGED <<LEVELS, today, now, reqs, calc>>

Craft ==
    \E item_key \in {"item_rope", "item_axe"}, times \in {0} :
        LET r == perform_craft(db, item_key, "craft_table", times)
        IN  /\ db' = r.db
            /\ resp' = r.resp @@ [item_key |-> item_key, times |-> times]
            /\ UNCHANGED <<LEVELS, today, now, reqs, calc>>

\* a player owning the forest card, a coin, two diams and two branches
InitEcon ==
    /\ LEVELS = EconLevels
    /\ today = 0
    /\ now = 0
    /\ db = [InitDb EXCEPT !.cards = <<[card_key |-> "land_forest", qty |-> 1]>>,
                           !.player.coins = 1, !.player.diams = 2,
                           !.stocks = <<[resource |-> "branch", qty |-> 2 * Scale]>>]
    /\ resp = NoResp
    /\ reqs = [r \in ReqIds |-> IdleReq]
    /\ calc = NoCalc

NextEcon ==
    \/ CollectForest
    \/ SellBranches
    \/ BuyShopCard
    \/ BuyVillageOffer
    \/ BuyForestSlot
    \/ Craft
    \/ ClaimDaily

SpecEcon == InitEcon /\ [][NextEcon]_vars

(***************************************************************************)
(* Pure helpers evaluated on drawn inputs                                  *)
(***************************************************************************)
\* base cooldowns in 1/Scale s: the base_cooldown of the seeded resources
BaseCooldowns == {5 * Scale, 6 * Scale, 8 * Scale, 10 * Scale}

\* amounts in tenths: a debuff, 10 %, 50 %, 90 %, 100 %
Amounts == {0 - 5, 1, 5, 9, 10}

Modifiers ==
    [qty : 0..MaxQty, type : {"reduction", "multiplier"}, amount : Amounts]

BoostLists == UNION { [1..n -> Modifiers] : n \in 0..MaxMods }

ComputeCooldown ==
    /\ calc.fn = "_compute_cooldown"
    /\ ~calc.done
    /\ calc' = [calc EXCEPT !.done = TRUE,
                            !.out = CooldownOf(calc.base, calc.boosts)]
    /\ UNCHANGED <<LEVELS, today, now, db, resp, reqs>>

InitCooldown ==
    /\ LEVELS = DefaultLevels
    /\ today = 0
    /\ now = 0
    /\ db = InitDb
    /\ resp = NoResp
    /\ reqs = [r \in ReqIds |-> IdleReq]
    /\ calc \in [fn : {"_compute_cooldown"}, base : BaseCooldowns,
                  boosts : BoostLists, done : {FALSE}, out : {0}]

SpecCooldown == InitCooldown /\ [][ComputeCooldown]_vars

\* xp values probed, in halves of a point
ProbeXps == {k * (Scale \div 2) : k \in 0..(2 * MaxProbeXp)}

LevelForXp ==
    /\ calc.fn = "level_for_xp"
    /\ ~calc.done
    /\ calc' = [calc EXCEPT !.done = TRUE,
                            !.out1 = level_for_xp(LEVELS, calc.xp1),
                            !.out2 = level_for_xp(LEVELS, calc.xp2)]
    /\ UNCHANGED <<LEVELS, today, now, db, resp, reqs>>

InitLevels ==
    /\ LEVELS \in ThresholdTables
    /\ today = 0
    /\ now = 0
    /\ db = InitDb
    /\ resp = NoResp
    /\ reqs = [r \in ReqIds |-> IdleReq]
    /\ calc \in { c \in [fn : {"level_for_xp"}, xp1 : ProbeXps, xp2 : ProbeXps,
                          done : {FALSE}, out1 : {0}, out2 : {0}] :
                   c.xp1 <= c.xp2 }

SpecLevels == InitLevels /\ [][LevelForXp]_vars

\* amounts in tenths: none, 10 %, 150 %
StackAmounts == {0, 1, 15}

StackModifiers ==
    [qty : 0..MaxQty, type : {"addition", "multiplier"}, amount : StackAmounts]

StackLists == UNION { [1..n -> StackModifiers] : n \in 0..MaxMods }

StackFns ==
    {"_compute_collect_amount", "_compute_xp_gain", "_compute_land_loot_multiplier"}

\* base of each computation: 1.0 for yield and land loot, base_xp for XP
StackBases(fn) == IF fn = "_compute_xp_gain" THEN {XP_PER_COLLECT, 2} ELSE {1}

Reverse(s) == [i \in 1..Len(s) |-> s[Len(s) + 1 - i]]

StackOf(fn, base, boosts) ==
    IF fn = "_compute_collect_amount" THEN CollectAmountOf(boosts)
    ELSE IF fn = "_compute_xp_gain" THEN XpGainOf(base, boosts)
    ELSE LandLootMultiplierOf(boosts)

\* one computation on the drawn list and one on the same list reversed
ComputeStack ==
    /\ calc.fn \in StackFns
    /\ ~calc.done
    /\ calc' = [calc EXCEPT !.done = TRUE,
                            !.out = StackOf(calc.fn, calc.base, calc.boosts),
                            !.outRev = StackOf(calc.fn, calc.base,
                                               Reverse(calc.boosts))]
    /\ UNCHANGED <<LEVELS, today, now, db, resp, reqs>>

InitStack ==
    /\ LEVELS = DefaultLevels
    /\ today = 0
    /\ now = 0
    /\ db = InitDb
    /\ resp = NoResp
    /\ reqs = [r \in ReqIds |-> IdleReq]
    /\ calc \in { c \in [fn : StackFns, base : {XP_PER_COLLECT, 2},
                          boosts : StackLists, done : {FALSE},
                          out : {0}, outRev : {0}] :
                   c.base \in StackBases(c.fn) }

SpecStack == InitStack /\ [][ComputeStack]_vars

\* PlayerCard rows joined to their CardDef, any qty from 0
JoinedRows == [card_key : CardKeys, qty : 0..MaxQty]

JoinedLists == UNION { [1..n -> JoinedRows] : n \in 0..MaxMods }

\* the three boost resolvers on the drawn rows and requested targets
ResolveBoosts ==
    /\ calc.fn = "resolve_boosts"
    /\ ~calc.done
    /\ calc' = [calc EXCEPT
                  !.done = TRUE,
                  !.cooldown = CooldownBoostsFrom(calc.rows, calc.resource_key),
                  !.resource = ResourceBoostsFrom(calc.rows, calc.resource_key),
                  !.loot = LandLootBoostsFrom(calc.rows, calc.land_key, calc.tool_key)]
    /\ UNCHANGED <<LEVELS, today, now, db, resp, reqs>>

InitResolve ==
    /\ LEVELS = DefaultLevels
    /\ today = 0
    /\ now = 0
    /\ db = InitDb
    /\ resp = NoResp
    /\ reqs = [r \in ReqIds |-> IdleReq]
    /\ calc \in [fn : {"resolve_boosts"}, rows : JoinedLists,
                  resource_key : ResourceKeys, land_key : {"forest", "beach"},
                  tool_key : {"hands"}, done : {FALSE},
                  cooldown : {<<>>}, resource : {<<>>}, loot : {<<>>}]

SpecResolve == InitResolve /\ [][ResolveBoosts]_vars

\* leaves: a level rule, two coins rules and a rule type the evaluator does
\* not know
RuleLeaves ==
    { [k |-> "leaf", type |-> "level_at_least", value |-> 1],
      [k |-> "leaf", type |-> "coins_at_least", value |-> 0],
      [k |-> "leaf", type |-> "coins_at_least", value |-> 2],
      [k |-> "leaf", type |-> "has_card", value |-> 0] }

GroupKinds == {"all", "any", "list"}

\* nested groups hold no child or one leaf
InnerRules ==
    RuleLeaves \cup {NoneRec}
    \cup [k : GroupKinds, subs : {<<>>} \cup {<<l>> : l \in RuleLeaves}]

RuleTrees ==
    InnerRules
    \cup [k : GroupKinds,
          subs : UNION { [1..n -> InnerRules] : n \in 0..MaxRuleLen }]

\* player snapshots: level 0 or 1, coins 0, 1 or 2
RulePlayers == [level : {0, 1}, coins : {0, 1, 2}]

CheckUnlockRules ==
    /\ calc.fn = "check_unlock_rules"
    /\ ~calc.done
    /\ calc' = [calc EXCEPT !.done = TRUE,
                            !.out = check_unlock_rules(calc.player, calc.rules)]
    /\ UNCHANGED <<LEVELS, today, now, db, resp, reqs>>

InitRules ==
    /\ LEVELS = DefaultLevels
    /\ today = 0
    /\ now = 0
    /\ db = InitDb
    /\ resp = NoResp
    /\ reqs = [r \in ReqIds |-> IdleReq]
    /\ calc \in [fn : {"check_unlock_rules"}, player : RulePlayers,
                  rules : RuleTrees, done : {FALSE},
                  out : {[ok |-> TRUE, info |-> NoInfo]}]

SpecRules == InitRules /\ [][CheckUnlockRules]_vars

(***************************************************************************)
(* Properties of tile-mode collection                                      *)
(***************************************************************************)
StockOf(d, resource) ==
    LET i == FirstIdx(d.stocks, "resource", resource)
    IN  IF i = 0 THEN 0 ELSE d.stocks[i].qty

\* this step is the handling of one collect request
CollectStep == now' = now /\ resp'.op = "collect"

\* the tile is unlocked and its stored cooldown_until is still in the future
OnCooldown(d, t_now, t) ==
    /\ t \in 1..Len(d.tiles)
    /\ ~d.tiles[t].locked
    /\ d.tiles[t].cooldown_until # NullTime
    /\ d.tiles[t].cooldown_until > t_now

\* C1: a tile-mode collect on an unlocked tile whose cooldown_until is later
\* than now is rejected with 409 on_cooldown carrying the stored
\* cooldown_until, and the database (tile cooldown, stock, XP, level, coins,
\* quest progress) is left as it was.
C1_CooldownRejection ==
    [][ \A t \in 1..MaxTiles :
          (CollectStep /\ resp'.tileId = t /\ OnCooldown(db, now, t))
          => /\ resp'.status = 409
             /\ resp'.error = "on_cooldown"
             /\ resp'.until = db.tiles[t].cooldown_until
             /\ db' = db ]_vars

\* a collect has just been rejected on a tile that is cooling down, after an
\* earlier collect that gave stock and XP
C1_Witness ==
    /\ resp.op = "collect"
    /\ resp.error = "on_cooldown"
    /\ OnCooldown(db, now, resp.tileId)
    /\ resp.until = db.tiles[resp.tileId].cooldown_until
    /\ db.player.xp > 0

\* what one successful collect on tile t writes
CollectApplied(t) ==
    LET resource == db.tiles[t].resource
        S == OpenSession(db)
        base_cd == ResourceDefs[resource].base_cooldown
    IN  /\ db'.tiles[t].cooldown_until
             = now + _compute_cooldown(S, resource, base_cd * Scale)
        /\ db'.player.xp = db.player.xp + _compute_xp_gain(S, XP_PER_COLLECT)
        /\ StockOf(db', resource)
             >= StockOf(db, resource) + _compute_collect_amount(S, resource)

CollectGain == _compute_xp_gain(OpenSession(db), XP_PER_COLLECT)

\* C5: for a player created at level 0 / xp 0 and changed only by game
\* operations, the player's level equals level_for_xp of the player's xp
\* after every call of apply_xp_and_level_up: in the session the call
\* returns to, and in the database once XP has been committed.
C5_LevelMatchesXp ==
    /\ LET a == apply_xp_and_level_up(LEVELS, OpenSession(db), CollectGain)
       IN  a.S.err = ""
           => a.S.cur.player.level = level_for_xp(LEVELS, a.S.cur.player.xp)
    /\ db.player.xp > 0
           => db.player.level = level_for_xp(LEVELS, db.player.xp)

\* XP was committed and took the player up two levels
C5_Witness ==
    /\ db.player.xp > 0
    /\ db.player.level = 2
    /\ resp.op = "collect"
    /\ resp.status = 200

\* C10: under the level table the code falls back to, a level-0 player who
\* unlocks a branch tile gets a tile that is ready at once; the first
\* collect leaves a branch stock of 1.0 and xp equal to XP_PER_COLLECT; and
\* a later collect made before the stored cooldown_until is rejected, so a
\* second success on the tile comes no earlier than that cooldown_until.
C10_UnlockCollectScenario ==
    [][ /\ (now' = now /\ resp'.op = "unlock" /\ resp'.resource = "branch"
            /\ db.player.level = 0)
              => /\ resp'.status = 200
                 /\ Len(db'.tiles) = Len(db.tiles) + 1
                 /\ resp'.id = Len(db'.tiles)
                 /\ db'.tiles[resp'.id].resource = "branch"
                 /\ ~db'.tiles[resp'.id].locked
                 /\ db'.tiles[resp'.id].cooldown_until = NullTime
                 /\ CollectCheck(db', now, resp'.id) = NoneRec
        /\ \A t \in 1..MaxTiles :
             (CollectStep /\ resp'.tileId = t /\ t <= Len(db.tiles)
              /\ db.tiles[t].resource = "branch")
              => /\ (db.tiles[t].cooldown_until = NullTime /\ db.player.xp = 0)
                      => /\ resp'.status = 200
                         /\ StockOf(db', "branch") = 1 * Scale
                         /\ db'.player.xp = XP_PER_COLLECT * Scale
                 /\ OnCooldown(db, now, t)
                      => resp'.error = "on_cooldown" /\ db' = db
                 /\ (resp'.status = 200 /\ db.tiles[t].cooldown_until # NullTime)
                      => now >= db.tiles[t].cooldown_until ]_vars

\* the scenario ran: first collect done, then a second success on the same
\* tile after its cooldown
C10_Witness ==
    /\ LEVELS = DefaultLevels
    /\ Len(db.tiles) >= 1
    /\ db.tiles[1].resource = "branch"
    /\ resp.op = "collect"
    /\ resp.status = 200
    /\ db.player.xp = 2 * XP_PER_COLLECT * Scale
    /\ StockOf(db, "branch") = 2 * Scale

(***************************************************************************)
(* Properties of progression                                               *)
(***************************************************************************)
\* this step is one direct call of apply_xp_and_level_up
GrantStep == now' = now /\ today' = today /\ resp'.op = "grant_xp"

\* C9: the player's xp never decreases; apply_xp_and_level_up with
\* gained_xp <= 0 changes nothing and returns (False, player.level, []);
\* with gained_xp > 0 it raises xp by exactly gained_xp; and xp changes in
\* no step other than a collect or such a call (not in sell, buy, daily,
\* unlock, quest creation or the passing of time).
C9_XpNeverDecreases ==
    [][ /\ db'.player.xp >= db.player.xp
        /\ (GrantStep /\ resp'.gained_xp <= 0)
              => /\ db' = db
                 /\ resp'.level_up = FALSE
                 /\ resp'.new_level = db.player.level
                 /\ resp'.all_rewards = <<>>
                 /\ resp'.xp_after = db.player.xp
        /\ (GrantStep /\ resp'.gained_xp > 0)
              => /\ resp'.xp_after = db.player.xp + resp'.gained_xp
                 /\ resp'.status = 200
                      => db'.player.xp = db.player.xp + resp'.gained_xp
        /\ db'.player.xp # db.player.xp
              => /\ resp'.op \in {"collect", "grant_xp"}
                 /\ resp'.status = 200
                 /\ now' = now /\ today' = today ]_vars

\* a call with a negative gain came back as a no-op on a player who had
\* XP, coins and stock to lose
C9_Witness ==
    /\ resp.op = "grant_xp"
    /\ resp.gained_xp < 0
    /\ resp.level_up = FALSE
    /\ resp.xp_after = db.player.xp
    /\ db.player.xp > 0
    /\ db.player.coins > 0
    /\ db.stocks # <<>>

\* the highest defined level whose xp_required is <= xp, 0 when none
HighestMetLevel(L, xp) ==
    LET met == {k \in DOMAIN L : L[k].xp_required * Scale <= xp}
    IN  IF met = {} THEN 0 ELSE CHOOSE k \in met : \A j \in met : j <= k

\* the highest defined level such that it and every defined level below it
\* have xp_required <= xp, 0 when none
HighestPrefixLevel(L, xp) ==
    LET met == {k \in DOMAIN L :
                   \A j \in DOMAIN L : j <= k => L[j].xp_required * Scale <= xp}
    IN  IF met = {} THEN 0 ELSE CHOOSE k \in met : \A j \in met : j <= k

NonDecreasing(L) ==
    \A j, k \in DOMAIN L : j <= k => L[j].xp_required <= L[k].xp_required

C8_Monotone ==
    (calc.fn = "level_for_xp" /\ calc.done /\ calc.xp1 <= calc.xp2)
        => calc.out1 <= calc.out2

\* evaluated at two xp values that give different levels, on a table whose
\* thresholds are not in increasing order
C8_Witness ==
    /\ calc.fn = "level_for_xp" /\ calc.done
    /\ calc.xp1 < calc.xp2
    /\ calc.out1 < calc.out2
    /\ ~NonDecreasing(LEVELS)

(***************************************************************************)
(* Properties of concurrent collects, of the cooldown floor and of rewards *)
(***************************************************************************)
Applied(r) == reqs[r].pc = "done" /\ reqs[r].resp.status = 200

\* C3: two concurrent collect requests on the same ready tile are
\* serialized: the test of cooldown_until and the writes of one are not
\* interleaved with those of the other, so the two never both pass the test
\* on the same stored cooldown_until and both apply the reward.
C3_CollectsSerialized ==
    \A r1, r2 \in ReqIds :
        (r1 # r2 /\ Applied(r1) /\ Applied(r2) /\ reqs[r1].tile = reqs[r2].tile)
        => reqs[r1].seen # reqs[r2].seen

AllReductions(boosts) ==
    \A i \in 1..Len(boosts) : boosts[i].type = "reduction" /\ boosts[i].qty > 0

RECURSIVE QtySum(_, _, _)
QtySum(rows, field, val) ==
    IF rows = <<>> THEN 0
    ELSE (IF Head(rows)[field] = val THEN Head(rows).qty ELSE 0)
         + QtySum(Tail(rows), field, val)

\* balances, inventory and level of a player
Totals(d) ==
    [level |-> d.player.level, coins |-> d.player.coins, diams |-> d.player.diams,
     stocks |-> [r \in ResourceKeys |-> QtySum(d.stocks, "resource", r)],
     cards |-> [k \in CardKeys |-> QtySum(d.cards, "card_key", k)]]

\* a new player granted gained_xp in one call and one transaction
OneCall(L, gained_xp) ==
    LET a == apply_xp_and_level_up(L, OpenSession(InitDb), gained_xp)
        c == Commit(InitDb, a.S)
    IN  IF a.S.err = "" /\ c.ok THEN c.db ELSE InitDb

\* C6: the XP a player has been granted over several calls leaves the same
\* level, coins, diams, resource stocks and card quantities as the same
\* total granted in one call: the rewards of every level crossed, once each.
C6_SplitEqualsOneCall ==
    db.player.xp > 0 => Totals(db) = Totals(OneCall(LEVELS, db.player.xp))

(***************************************************************************)
(* Properties of the unlock rule evaluator                                 *)
(***************************************************************************)
RulesDone == calc.fn = "check_unlock_rules" /\ calc.done

IsGroup(kinds) == calc.rules # NoneRec /\ calc.rules.k \in kinds

Pass == [ok |-> TRUE, info |-> NoInfo]

\* result of the i-th child of the outermost group
ChildResult(i) == _eval_block(calc.player, calc.rules.subs[i])

FailingChildren ==
    {i \in 1..Len(calc.rules.subs) : ~ChildResult(i).ok}

FirstOf(S) == CHOOSE i \in S : \A j \in S : i <= j

\* C11: an 'all' group or a bare list passes iff every child passes; when it
\* fails the info is that of the first failing child in declaration order,
\* and when it passes the info is {}.
C11_AllGroup ==
    (RulesDone /\ IsGroup({"all", "list"})) =>
        /\ calc.out.ok <=> FailingChildren = {}
        /\ FailingChildren = {} => calc.out.info = NoInfo
        /\ FailingChildren # {} =>
               calc.out.info = ChildResult(FirstOf(FailingChildren)).info

\* an 'all' group whose two children fail for different reasons
C11_Witness ==
    /\ RulesDone
    /\ IsGroup({"all"})
    /\ Len(calc.rules.subs) = 2
    /\ FailingChildren = {1, 2}
    /\ ChildResult(1).info # ChildResult(2).info
    /\ calc.out = [ok |-> FALSE, info |-> ChildResult(1).info]

\* C12: an 'any' group passes with {} iff at least one child passes; when no
\* child passes it fails with the last child's failure info, or with reason
\* no_variant_matches when there is no child info; an 'any' group containing
\* coins_at_least 0 passes for every player.
C12_AnyGroup ==
    (RulesDone /\ IsGroup({"any"})) =>
        LET n == Len(calc.rules.subs)
            passing == {i \in 1..n : ChildResult(i).ok}
        IN  /\ calc.out.ok <=> passing # {}
            /\ passing # {} => calc.out.info = NoInfo
            /\ (passing = {} /\ n = 0) =>
                   calc.out.info = [reason |-> "no_variant_matches"]
            /\ (passing = {} /\ n > 0) =>
                   calc.out.info = ChildResult(n).info
            /\ (\E i \in 1..n :
                    calc.rules.subs[i] =
                        [k |-> "leaf", type |-> "coins_at_least", value |-> 0])
                   => calc.out = Pass

\* an 'any' group whose two children fail for different reasons
C12_Witness ==
    /\ RulesDone
    /\ IsGroup({"any"})
    /\ Len(calc.rules.subs) = 2
    /\ FailingChildren = {1, 2}
    /\ ChildResult(1).info # ChildResult(2).info
    /\ calc.out = [ok |-> FALSE, info |-> ChildResult(2).info]

\* C13: level_at_least passes iff level >= value, else level_too_low with
\* required and current_level; coins_at_least passes iff coins >= value,
\* else not_enough_coins with required and current_coins; any other leaf
\* passes with {}; a null or empty rule-tree passes with {}.
C13_LeafReference ==
    RulesDone =>
        LET r == calc.rules
            p == calc.player
        IN  /\ (r = NoneRec \/ r = [k |-> "list", subs |-> <<>>]) =>
                   calc.out = Pass
            /\ (r # NoneRec /\ r.k = "leaf") =>
                   calc.out =
                       CASE r.type = "level_at_least" /\ p.level < r.value ->
                                [ok |-> FALSE,
                                 info |-> [reason |-> "level_too_low",
                                           required |-> r.value,
                                           current_level |-> p.level]]
                         [] r.type = "coins_at_least" /\ p.coins < r.value ->
                                [ok |-> FALSE,
                                 info |-> [reason |-> "not_enough_coins",
                                           required |-> r.value,
                                           current_coins |-> p.coins]]
                         [] OTHER -> Pass

\* a level rule met exactly: level 1 against level_at_least 1
C13_Witness ==
    /\ RulesDone
    /\ calc.rules = [k |-> "leaf", type |-> "level_at_least", value |-> 1]
    /\ calc.player.level = 1
    /\ calc.out = Pass

\* C14: for every rule-tree and every player, a failed check carries a
\* 'reason' string and a passed check carries {}.
C14_ReasonOnFailure ==
    RulesDone =>
        /\ calc.out.ok => calc.out.info = NoInfo
        /\ ~calc.out.ok =>
               /\ "reason" \in DOMAIN calc.out.info
               /\ calc.out.info.reason \in
                      {"level_too_low", "not_enough_coins", "no_variant_matches"}

\* an 'all' group failing on a nested empty 'any' group
C14_Witness ==
    /\ RulesDone
    /\ IsGroup({"all"})
    /\ Len(calc.rules.subs) = 2
    /\ calc.rules.subs[2] = [k |-> "any", subs |-> <<>>]
    /\ ChildResult(1).ok
    /\ calc.out = [ok |-> FALSE, info |-> [reason |-> "no_variant_matches"]]

(***************************************************************************)
(* Properties of the stacking computations                                 *)
(***************************************************************************)
StackDone == calc.fn \in StackFns /\ calc.done

\* the stacking law as a fraction: one factor per modifier with qty > 0,
\* (1 + amount * qty) for addition and amount ** qty for multiplier
RECURSIVE LawProduct(_, _)
LawProduct(boosts, skipZeroAmount) ==
    IF boosts = <<>> THEN [num |-> 1, den |-> 1]
    ELSE LET b == Head(boosts)
             rest == LawProduct(Tail(boosts), skipZeroAmount)
             f == IF b.qty <= 0 \/ (skipZeroAmount /\ b.amount = 0)
                  THEN [num |-> 1, den |-> 1]
                  ELSE IF b.type = "addition"
                  THEN [num |-> AmountDen + b.amount * b.qty, den |-> AmountDen]
                  ELSE [num |-> Pow(b.amount, b.qty), den |-> Pow(AmountDen, b.qty)]
             n == f.num * rest.num
             d == f.den * rest.den
             g == Gcd(Abs(n), d)
         IN  [num |-> n \div g, den |-> d \div g]

\* base times the law, rounded to 4 decimals
LawValue(base, boosts, skipZeroAmount) ==
    LET p == LawProduct(boosts, skipZeroAmount)
    IN  DivRound(base * Scale * p.num, p.den)

OwnedQty(d, card_key) == QtySum(d.cards, "card_key", card_key)

\* C17: a player owning 2 units of a resource_boost card for R with kind
\* addition and amount 0.1 receives 1.0 * (1 + 0.1 * 2) = 1.2 units of R from
\* one tile-mode collect of R.
C17_BoostedCollect ==
    [][ \A t \in 1..MaxTiles :
          (/\ CollectStep
           /\ resp'.status = 200
           /\ resp'.tileId = t
           /\ db.tiles[t].resource = CardDefs.br_boost.card_gameplay.target_resource
           /\ CardDefs.br_boost.card_type = "resource_boost"
           /\ CardDefs.br_boost.card_gameplay.boost = [type |-> "addition", amount |-> 1]
           /\ OwnedQty(db, "br_boost") = 2)
          => StockOf(db', db.tiles[t].resource)
                 = StockOf(db, db.tiles[t].resource) + 12 * (Scale \div AmountDen) ]_vars

ResolveDone == calc.fn = "resolve_boosts" /\ calc.done

\* the gameplay target named by field is null or equals the requested one
TargetMatches(gp, field, requested) ==
    DictGet(gp, field, None) \in {None, requested}

\* one modifier per owned row with qty > 0 whose card has the given
\* card_type, matches every requested target and carries the nested spec
\* cfg_key; requested maps target fields to the requested values
ExpectedModifiers(rows, card_type, cfg_key, requested) ==
    LET sel == SelectSeq(rows, LAMBDA pc :
                   LET cd == CardDefs[pc.card_key]
                   IN  /\ pc.qty > 0
                       /\ cd.card_type = card_type
                       /\ cfg_key \in DOMAIN cd.card_gameplay
                       /\ \A f \in DOMAIN requested :
                              TargetMatches(cd.card_gameplay, f, requested[f]))
    IN  [i \in 1..Len(sel) |->
            LET cfg == CardDefs[sel[i].card_key].card_gameplay[cfg_key]
            IN  [qty |-> sel[i].qty, type |-> cfg.type, amount |-> cfg.amount]]

\* the modifiers of a resolved list that carry a qty > 0
Positive(boosts) == SelectSeq(boosts, LAMBDA b : b.qty > 0)

\* C18: for resource_boost, reduce_cooldown and land_loot_boost, an owned
\* card with qty > 0 whose gameplay target is null matches every requested
\* target, a card with a non-null target matches only the equal target, and
\* each matching card yields exactly one modifier carrying the owned qty.
C18_TargetMatching ==
    ResolveDone =>
        /\ Positive(calc.cooldown)
             = ExpectedModifiers(calc.rows, "reduce_cooldown", "cooldown",
                                 [target_resource |-> calc.resource_key])
        /\ Positive(calc.resource)
             = ExpectedModifiers(calc.rows, "resource_boost", "boost",
                                 [target_resource |-> calc.resource_key])
        /\ Positive(calc.loot)
             = ExpectedModifiers(calc.rows, "land_loot_boost", "loot",
                                 [target_land |-> calc.land_key,
                                  target_tool |-> calc.tool_key])

(***************************************************************************)
(* Properties of land-mode collection and of quest progress                *)
(***************************************************************************)
\* this step is the handling of one land-mode collect request
LandStep == resp'.op = "collect_land"

\* C19: a land-mode collect is rejected and the database (stock, xp, level,
\* coins, cards, quests) left as it was when the player does not own the
\* land's access card (land_locked), when the slot index is outside the
\* land's slot range (slot_out_of_range), or when the "hands" tool is not
\* configured for the land (tool_not_allowed).
C19_LandRejections ==
    [][ (LandStep /\ resp'.slot.given) =>
          LET land == resp'.land
              slot == resp'.slot.value
              owned == OwnedQty(db, "land_" \o land) > 0
              known == land \in DOMAIN LandDefs
          IN  /\ ~owned =>
                     /\ resp'.status = 403
                     /\ resp'.error = "land_locked"
                     /\ db' = db
              /\ (/\ owned
                  /\ known
                  /\ LandDefs[land].slots > 0
                  /\ (slot < 0 \/ slot >= LandDefs[land].slots)) =>
                     /\ resp'.status = 400
                     /\ resp'.error = "slot_out_of_range"
                     /\ db' = db
              /\ (/\ owned
                  /\ known
                  /\ slot >= 0
                  /\ slot < LandDefs[land].slots
                  /\ "hands" \notin DOMAIN LandDefs[land].tools) =>
                     /\ resp'.status = 400
                     /\ resp'.error = "tool_not_allowed"
                     /\ db' = db ]_vars

\* a land collect on a slot out of range has just been rejected, after an
\* earlier land collect that gave stock and XP
C19_Witness ==
    /\ resp.op = "collect_land"
    /\ resp.error = "slot_out_of_range"
    /\ OwnedQty(db, "land_" \o resp.land) > 0
    /\ StockOf(db, "branch") > 0
    /\ db.player.xp > 0

\* objectives after the hooks of one collect: each collected resource
\* advances the matching collect_resource objectives by its base amount, up
\* to the objective's target
RECURSIVE ExpectedObjectives(_, _)
ExpectedObjectives(objectives, raw_loot) ==
    IF raw_loot = <<>> THEN objectives
    ELSE LET e == Head(raw_loot)
             objs == IF e.base_amount <= 0 THEN objectives
                     ELSE AdvanceObjectives(objectives, "collect_resource",
                                            "resource_key", e.resource,
                                            e.base_amount)
         IN  ExpectedObjectives(objs, Tail(raw_loot))

\* the pre-boost loot of the collect just handled: one unit of the tile's
\* resource, or the rolled loot of the land
BaseLoot ==
    IF resp'.op = "collect"
    THEN <<[resource |-> db.tiles[resp'.tileId].resource, base_amount |-> 1]>>
    ELSE resp'.raw_loot

\* the same request handled for the same player owning one more card
WithCard(pc) ==
    LET d == [db EXCEPT !.cards = Append(@, pc)]
    IN  IF resp'.op = "collect" THEN collect(LEVELS, d, now, resp'.tileId)
        ELSE collect_land(LEVELS, d, now, resp'.land, resp'.slot, resp'.raw_loot)

\* MaxQty units of a card of any boost type
BoostRows ==
    {pc \in OwnedCardRows :
        /\ pc.qty = MaxQty
        /\ CardDefs[pc.card_key].card_type \in
               {"resource_boost", "xp_boost", "reduce_cooldown", "land_loot_boost"}}

ObjectivesOf(d) == [q \in 1..Len(d.quests) |-> d.quests[q].objectives]

\* C20: on every successful collect, each active quest's matching
\* collect_resource objectives advance by the pre-boost base amount (1 per
\* tile collect, the rolled amount per land collect, up to the objective's
\* target), and the same collect made by a player owning any further boost
\* card leaves the same objective progress.
C20_QuestProgressBoostIndependent ==
    [][ (resp'.op \in {"collect", "collect_land"} /\ resp'.status = 200 /\ now' = now) =>
          /\ Len(db'.quests) = Len(db.quests)
          /\ \A q \in 1..Len(db.quests) :
                 db'.quests[q].objectives =
                     IF db.quests[q].status = "active"
                     THEN ExpectedObjectives(db.quests[q].objectives, BaseLoot)
                     ELSE db.quests[q].objectives
          /\ \A pc \in BoostRows :
                 LET r == WithCard(pc)
                 IN  r.resp.status = 200 => ObjectivesOf(r.db) = ObjectivesOf(db') ]_vars

\* a land collect that rolled three branches has completed a quest asking
\* for two, for a player owning two units of a branch boost card
C20_Witness ==
    /\ resp.op = "collect_land"
    /\ resp.status = 200
    /\ resp.raw_loot = <<[resource |-> "branch", base_amount |-> 3]>>
    /\ OwnedQty(db, "br_boost") = 2
    /\ Len(db.quests) = 1
    /\ db.quests[1].status = "completed"
    /\ db.quests[1].objectives[1].current_value = 2

(***************************************************************************)
(* C24: the checks of a tile unlock                                        *)
(***************************************************************************)
UnlockStep == resp'.op = "unlock" /\ resp'.resource # ""

KnownResource(key) == key \in DOMAIN ResourceDefs /\ ResourceDefs[key].enabled

UnlockedTile(resource) ==
    [resource |-> resource, locked |-> FALSE, cooldown_until |-> NullTime]

DailyStep == resp'.op = "daily" /\ today' = today

\* C22: a claim made when last_daily is today is rejected with
\* already_claimed and the next midnight as next_at, and leaves coins,
\* last_daily, daily_streak and best_streak (the whole database) unchanged; a
\* claim made when last_daily is null or an earlier day succeeds, sets
\* last_daily to today and raises coins by exactly the daily reward.  So the
\* chest pays at most once per UTC day.
C22_OncePerDay ==
    [][ DailyStep =>
          LET me == db.player
          IN  /\ me.last_daily = today =>
                     /\ resp'.status = 409
                     /\ resp'.error = "already_claimed"
                     /\ resp'.next_at = today + 1
                     /\ db' = db
              /\ (me.last_daily = NullDate \/ me.last_daily < today) =>
                     /\ resp'.status = 200
                     /\ db'.player.last_daily = today
                     /\ db'.player.coins = me.coins + DAILY_REWARD_COINS
                     /\ resp'.reward = DAILY_REWARD_COINS ]_vars

\* the chest claimed on two days, and a third claim refused on the second
C22_Witness ==
    /\ resp.op = "daily"
    /\ resp.status = 409
    /\ db.player.last_daily = today
    /\ db.player.coins = 2 * DAILY_REWARD_COINS

\* C27: a successful claim made exactly one UTC day after last_daily sets
\* daily_streak to the previous streak plus one; one made after a longer gap
\* or without a previous claim sets it to 1; once a claim has been made
\* best_streak >= daily_streak >= 1, and best_streak never decreases.
C27_Streak ==
    /\ []( db.player.last_daily # NullDate =>
             /\ db.player.daily_streak >= 1
             /\ db.player.best_streak >= db.player.daily_streak )
    /\ [][ db'.player.best_streak >= db.player.best_streak ]_vars
    /\ [][ (DailyStep /\ resp'.status = 200) =>
             LET me == db.player
             IN  db'.player.daily_streak =
                     IF me.last_daily # NullDate /\ today - me.last_daily = 1
                     THEN me.daily_streak + 1 ELSE 1 ]_vars

\* two days claimed in a row, one missed, and the next claim starts again at 1
C27_Witness ==
    /\ resp.op = "daily"
    /\ resp.status = 200
    /\ db.player.last_daily = today
    /\ db.player.daily_streak = 1
    /\ db.player.best_streak = 2

(***************************************************************************)
(* C26: levels and their rewards over a sequence of XP grants              *)
(***************************************************************************)
\* the key a reward record reports for a configured reward
RewardKey(r) ==
    IF r.type = "resource" THEN r.resource_key
    ELSE IF r.type = "card" THEN r.card_key ELSE None

\* the configured rewards of one level, in declaration order, tagged
DeclaredRewards(L, lvl) ==
    IF lvl \notin DOMAIN L THEN <<>>
    ELSE [i \in 1..Len(L[lvl].rewards) |->
             [type |-> L[lvl].rewards[i].type, amount |-> L[lvl].rewards[i].amount,
              key |-> RewardKey(L[lvl].rewards[i]), level |-> lvl]]

\* the rewards of the levels from+1 .. to, by ascending level
RECURSIVE RewardsBetween(_, _, _)
RewardsBetween(L, from, to) ==
    IF from >= to THEN <<>>
    ELSE RewardsBetween(L, from, to - 1) \o DeclaredRewards(L, to)

\* C26: over any sequence of apply_xp_and_level_up calls the player's level
\* never decreases; a call that returns (its caller's commit may still fail)
\* reports and applies rewards only of levels above the level the player had
\* before it and up to the level it returns, which is the level stored when
\* the call is committed, so the rewards of a level are applied at most
\* once; and the list it returns holds the rewards of those levels by
\* ascending level, within a level in declaration order, each record tagged
\* with its level.  A call that raises leaves the database as it was.
C26_LevelsAndRewards ==
    [][ GrantStep =>
          /\ db'.player.level >= db.player.level
          /\ resp'.error \in {None, "IntegrityError"} =>
                /\ resp'.new_level >= db.player.level
                /\ resp'.all_rewards =
                       RewardsBetween(LEVELS, db.player.level, resp'.new_level)
                /\ \A i \in 1..Len(resp'.all_rewards) :
                       /\ resp'.all_rewards[i].level > db.player.level
                       /\ resp'.all_rewards[i].level <= resp'.new_level
                       /\ i > 1 => resp'.all_rewards[i - 1].level
                                      <= resp'.all_rewards[i].level
                /\ resp'.level_up = (resp'.new_level > db.player.level)
          /\ resp'.status = 200 => db'.player.level = resp'.new_level
          /\ resp'.status # 200 => db' = db ]_vars

\* one grant crossed two levels and returned the two rewards of level 1
\* followed by the two of level 2
C26_Witness ==
    /\ resp.op = "grant_xp"
    /\ resp.status = 200
    /\ db.player.level = 2
    /\ Len(resp.all_rewards) = 4
    /\ resp.all_rewards[1].level = 1
    /\ resp.all_rewards[2].level = 1
    /\ resp.all_rewards[3].level = 2
    /\ resp.all_rewards[1].type # resp.all_rewards[3].type

(***************************************************************************)
(* C29, C30: land collects without cooldown, and on bought slots           *)
(***************************************************************************)
\* the player owns the land, the slot is one of the land's configured
\* slots, and the land is collected by hand
LandCollectable(d, land, slot) ==
    /\ OwnedQty(d, "land_" \o land) > 0
    /\ land \in DOMAIN LandDefs
    /\ "hands" \in DOMAIN LandDefs[land].tools
    /\ slot.given
    /\ slot.value >= 0
    /\ slot.value < LandDefs[land].slots

\* C29: a land-mode collect stores no cooldown and is never rejected for
\* cooldown: every collect of a player who owns the land, on a slot in
\* range, succeeds, however many came before it on that slot; each adds the
\* rolled loot to the stock and grants XP, and the 'next' it returns is
\* stored nowhere.
C29_LandCollectsAllSucceed ==
    [][ (LandStep /\ LandCollectable(db, resp'.land, resp'.slot)) =>
          /\ resp'.status = 200
          /\ db'.player.xp > db.player.xp
          /\ \A k \in 1..Len(resp'.raw_loot) :
                 StockOf(db', resp'.raw_loot[k].resource)
                     > StockOf(db, resp'.raw_loot[k].resource)
          /\ db'.tiles = db.tiles ]_vars

\* the bought slots of a land
ExtraSlots(d, land) ==
    LET i == FirstIdx(d.land_slots, "land_key", land)
    IN  IF i = 0 THEN 0 ELSE d.land_slots[i].extra_slots

\* C30: a bought land slot is usable: once buy_land_slot has raised
\* extra_slots to e, a land-mode collect of the owner accepts every slot
\* index in [0, base_slots + e): the range check uses total_slots.
C30_BoughtSlotUsable ==
    [][ (/\ LandStep
         /\ resp'.land \in DOMAIN LandDefs
         /\ OwnedQty(db, "land_" \o resp'.land) > 0
         /\ resp'.slot.given
         /\ resp'.slot.value >= 0
         /\ resp'.slot.value < LandDefs[resp'.land].slots + ExtraSlots(db, resp'.land))
        => resp'.error # "slot_out_of_range" ]_vars

(***************************************************************************)
(* C28: quest objectives, completion and rewards                           *)
(***************************************************************************)
AllReached(quest) ==
    \A i \in 1..Len(quest.objectives) :
        quest.objectives[i].current_value = quest.objectives[i].target_value

RECURSIVE CompletedRewards(_, _)
CompletedRewards(quests, currency) ==
    IF quests = <<>> THEN 0
    ELSE (IF Head(quests).status = "completed"
          THEN Head(quests).rewards_json[currency] ELSE 0)
         + CompletedRewards(Tail(quests), currency)

\* C28: after any sequence of on_resource_collected and on_item_crafted
\* calls every objective has 0 <= current_value <= target_value; a quest
\* becomes completed only in a step that leaves every objective at its
\* target, and a completed quest stays completed with its objectives as they
\* were; the rewards of a quest are credited exactly once: the coins and
\* diams of a player who started with none are the sums of the rewards of
\* the completed quests.
C28_QuestProgress ==
    /\ [](\A q \in 1..Len(db.quests) :
             /\ \A i \in 1..Len(db.quests[q].objectives) :
                    /\ db.quests[q].objectives[i].current_value >= 0
                    /\ db.quests[q].objectives[i].current_value
                           <= db.quests[q].objectives[i].target_value
             /\ db.quests[q].status \in {"active", "completed"}
             /\ db.quests[q].status = "completed" => AllReached(db.quests[q]))
    /\ [](/\ db.player.coins = CompletedRewards(db.quests, "coins")
          /\ db.player.diams = CompletedRewards(db.quests, "diams"))
    /\ [][ /\ Len(db'.quests) = Len(db.quests)
           /\ \A q \in 1..Len(db.quests) :
                  /\ db.quests[q].status = "completed" => db'.quests[q] = db.quests[q]
                  /\ \A i \in 1..Len(db.quests[q].objectives) :
                         db'.quests[q].objectives[i].current_value
                             >= db.quests[q].objectives[i].current_value ]_vars

\* a quest asking for a branch and two ropes was completed by a craft after
\* a collect, next to a quest still active, and paid once
C28_Witness ==
    /\ resp.op = "on_item_crafted"
    /\ Len(db.quests) = 2
    /\ Len(db.quests[1].objectives) = 2
    /\ db.quests[1].status = "completed"
    /\ db.quests[2].status = "active"
    /\ db.quests[2].objectives[1].current_value = 1
    /\ db.player.coins = 1
    /\ db.player.diams = 1

(***************************************************************************)
(* C21: balances never go below zero                                       *)
(***************************************************************************)
\* C21: after any sequence of collects, sales, card purchases, village
\* purchases, land slot purchases, crafts, daily claims and level-ups on one
\* player, coins >= 0, diams >= 0 and every resource stock row has qty >= 0.
C21_NoNegativeBalance ==
    /\ db.player.coins >= 0
    /\ db.player.diams >= 0
    /\ \A k \in 1..Len(db.stocks) : db.stocks[k].qty >= 0

(***************************************************************************)
(* C23: selling                                                            *)
(***************************************************************************)
\* C23: a sale of qty > 0 units of a resource of which the player has no
\* stock row, or less than qty, is rejected with not_enough_stock and
\* changes nothing; otherwise it succeeds, the stock decreases by exactly
\* qty, coins increase by unit_price * qty and nothing else changes, where
\* unit_price is the base_sell_price of the resource's definition, 1 when
\* the resource has no definition.
C23_Sell ==
    [][ (resp'.op = "sell" /\ resp'.resource # "" /\ resp'.qty > 0) =>
          LET res == resp'.resource
              i == FirstIdx(db.stocks, "resource", res)
              unit_price == IF res \in DOMAIN ResourceDefs
                            THEN ResourceDefs[res].base_sell_price ELSE 1
              gain == unit_price * resp'.qty
          IN  IF i = 0 \/ StockQty(db.stocks, res) < resp'.qty * Scale
              THEN /\ resp'.status = 400
                   /\ resp'.error = "not_enough_stock"
                   /\ db' = db
              ELSE /\ resp'.status = 200
                   /\ resp'.gain = gain
                   /\ db' = [db EXCEPT !.stocks[i].qty = @ - resp'.qty * Scale,
                                       !.player.coins = @ + gain] ]_vars


\* every balance spent down to exactly zero: the last diams paid for a land
\* slot, the coins and the branches used up by earlier purchases and crafts
C21_Witness ==
    /\ resp.op = "buy_land_slot"
    /\ resp.status = 200
    /\ ~resp.used_free_card
    /\ db.player.diams = 0
    /\ db.player.coins = 0
    /\ StockQty(db.stocks, "branch") = 0
    /\ FirstIdx(db.stocks, "resource", "branch") # 0


(***************************************************************************)
(* C25: a card purchase is all-or-nothing                                  *)
(***************************************************************************)
\* the units of a resource that a price asks for
ResourceCost(price_cfg, resource) ==
    LET k == FirstIdx(price_cfg.resources, "resource", resource)
    IN  IF k = 0 THEN 0 ELSE price_cfg.resources[k].needed

\* C25: a card purchase that is rejected leaves the database as it was; one
\* that succeeds passed every check (buy rules, owned qty below max_owned,
\* not sold out, enough coins, enough diams, enough of every resource of
\* the price), takes the coins, the diams and every resource cost exactly
\* once, raises the owned qty of that card by exactly 1 and of no other
\* card, and leaves the owned qty at or below max_owned.
C25_BuyCardAllOrNothing ==
    [][ resp'.op = "buy_card" =>
          IF resp'.status # 200 THEN db' = db
          ELSE LET cd == CardDefs[resp'.card_key]
                   price_cfg == cd.shop.prices[1]
                   buy_rules == DictGet(cd.shop, "buy_rules", cd.unlock_rules)
                   max_owned == DictGet(cd.shop, "max_owned", cd.card_max_owned)
                   quantity == DictGet(cd.shop, "quantity", cd.card_quantity)
                   owned == OwnedQty(db, cd.key)
               IN  /\ check_unlock_rules(db.player, buy_rules).ok
                   /\ max_owned # NoneInt => owned < max_owned
                   /\ (quantity # NoneInt /\ quantity > 0) => owned < quantity
                   /\ db.player.coins >= price_cfg.coins
                   /\ db.player.diams >= price_cfg.diams
                   /\ \A r \in ResourceKeys :
                        /\ StockQty(db.stocks, r) >= ResourceCost(price_cfg, r) * Scale
                        /\ StockQty(db'.stocks, r) =
                             StockQty(db.stocks, r) - ResourceCost(price_cfg, r) * Scale
                   /\ db'.player = [db.player EXCEPT !.coins = @ - price_cfg.coins,
                                                     !.diams = @ - price_cfg.diams]
                   /\ \A k \in CardKeys :
                        OwnedQty(db', k) = OwnedQty(db, k) + (IF k = cd.key THEN 1 ELSE 0)
                   /\ resp'.owned_qty = owned + 1
                   /\ max_owned # NoneInt => OwnedQty(db', cd.key) <= max_owned
                   /\ db'.tiles = db.tiles
                   /\ db'.quests = db.quests
                   /\ db'.land_slots = db.land_slots
                   /\ db'.items = db.items ]_vars

\* the second xp_plus card bought with the last diam and the last branch
C25_Witness ==
    /\ resp.op = "buy_card"
    /\ resp.status = 200
    /\ resp.card_key = "xp_plus"
    /\ OwnedQty(db, "xp_plus") = 2
    /\ db.player.diams = 0
    /\ FirstIdx(db.stocks, "resource", "branch") # 0
    /\ StockQty(db.stocks, "branch") = 0

====
